---- MODULE Spec2Model ----
(***************************************************************************)
(* A model of the mazeworld graph core: the Pool of nodes with its         *)
(* adjacency and link relations (src/src/pool.rs), the FlatSquareGrid      *)
(* built on it (src/src/grid/mod.rs), the loop-erased Walker               *)
(* (src/src/grid/walker.rs) and the six maze generation algorithms.        *)
(*                                                                         *)
(* A NodeId is the index of its node in Pool.nodes, so the pool is         *)
(* modelled by the number of nodes and two functions from 0..nodes-1 to    *)
(* sets of ids.  A panic ends the run: the state it leaves behind (what    *)
(* the call had already written) is kept and no further step is taken.     *)
(***************************************************************************)
EXTENDS Integers, Sequences, FiniteSets, TLC

\* Bounds of the model.
MaxPoolNodes == 2   \* nodes a caller of the Pool API allocates
MaxNodes == 4       \* nodes of the pools handed to the graph algorithms
MaxDim == 3         \* width and height of the grids handed to the grid algorithms

VARIABLES
    nodes,              \* Pool.nodes.len(); node i has id NodeId(i)
    adjacencies,        \* adjacencies[i] = Pool.nodes[i].adjacencies
    links,              \* links[i] = Pool.nodes[i].links
    panicked,           \* TRUE once an assert!/panic!/index failure has fired
    call,               \* the Pool API call that produced this state
    all_bidirectional,  \* history: every call so far passed bidirectional = true
    width,              \* FlatSquareGrid.width  (0: the pool is not a grid)
    height,             \* FlatSquareGrid.height (0: the pool is not a grid)
    alg,                \* the generation algorithm that is running
    pc,                 \* its position: "start", a loop head, "done"
    frame               \* its local variables, under their names in the source

vars == <<nodes, adjacencies, links, panicked, call, all_bidirectional,
          width, height, alg, pc, frame>>

NodeIds == 0 .. (nodes - 1)

NoCall == [op |-> "none"]
NoFrame == [none |-> TRUE]

-----------------------------------------------------------------------------
(* Pool: src/src/pool.rs *)

\* Pool::new: no nodes.
Pool_new == [nodes |-> 0, adjacencies |-> <<>>, links |-> <<>>]

\* A mutant of new_node that rebuilds every node with empty sets.
new_node_rebuilding(n, f) == [i \in 0 .. n |-> {}]

\* Pool::new_node: the new id is the old length; the node starts with empty sets.
new_node(n, f) == [i \in 0 .. n |-> IF i = n THEN {} ELSE f[i]]

\* Mutant: the reverse adjacency is never registered.
make_adjacent_oneway(adj, here, there, bidirectional) ==
    [adj EXCEPT ![here] = @ \cup {there}]

\* Pool::make_adjacent.
make_adjacent(adj, here, there, bidirectional) ==
    LET a1 == [adj EXCEPT ![here] = @ \cup {there}]
    IN  IF bidirectional THEN [a1 EXCEPT ![there] = @ \cup {here}] ELSE a1

\* Mutant: the first assert! is missing.
link_cells_unchecked(lk, adj, here, there, bidirectional) ==
    LET l1 == [lk EXCEPT ![here] = @ \cup {there}]
    IN  IF bidirectional
        THEN [links |-> [l1 EXCEPT ![there] = @ \cup {here}], panicked |-> FALSE]
        ELSE [links |-> l1, panicked |-> FALSE]

\* Mutant: the second assert! is missing; the reverse link is skipped instead.
link_cells_lenient(lk, adj, here, there, bidirectional) ==
    IF there \notin adj[here]
    THEN [links |-> lk, panicked |-> TRUE]
    ELSE LET l1 == [lk EXCEPT ![here] = @ \cup {there}]
         IN  IF bidirectional /\ here \in adj[there]
             THEN [links |-> [l1 EXCEPT ![there] = @ \cup {here}], panicked |-> FALSE]
             ELSE [links |-> l1, panicked |-> FALSE]

\* Mutant: the link set is overwritten instead of inserted into.
link_cells_overwrite(lk, adj, here, there, bidirectional) ==
    IF there \notin adj[here]
    THEN [links |-> lk, panicked |-> TRUE]
    ELSE LET l1 == [lk EXCEPT ![here] = {there}]
         IN  IF ~bidirectional
             THEN [links |-> l1, panicked |-> FALSE]
             ELSE IF here \notin adj[there]
                  THEN [links |-> l1, panicked |-> TRUE]
                  ELSE [links |-> [l1 EXCEPT ![there] = {here}], panicked |-> FALSE]

\* Pool::link_cells: the link relation after the call, and whether it panicked.
\* The first insert happens before the second assert!, so a panic of the
\* second assert! leaves the link here -> there behind.
link_cells(lk, adj, here, there, bidirectional) ==
    IF there \notin adj[here]
    THEN [links |-> lk, panicked |-> TRUE]
    ELSE LET l1 == [lk EXCEPT ![here] = @ \cup {there}]
         IN  IF ~bidirectional
             THEN [links |-> l1, panicked |-> FALSE]
             ELSE IF here \notin adj[there]
                  THEN [links |-> l1, panicked |-> TRUE]
                  ELSE [links |-> [l1 EXCEPT ![there] = @ \cup {here}], panicked |-> FALSE]

\* Pool::unlink_cells.
unlink_cells(lk, here, there, bidirectional) ==
    LET l1 == [lk EXCEPT ![here] = @ \ {there}]
    IN  IF bidirectional THEN [l1 EXCEPT ![there] = @ \ {here}] ELSE l1

\* Pool::neighborhood_of, passages_of, walls_of, unvisited_neighborhood_of.
neighborhood_of(id) == adjacencies[id]
passages_of(id) == links[id]
walls_of_neighborhood(id) == neighborhood_of(id)   \* mutant: the links are not taken out
walls_of(id) == neighborhood_of(id) \ passages_of(id)
unvisited_neighborhood_of_all(visited, id) == neighborhood_of(id)   \* mutant: visited nodes stay
unvisited_neighborhood_of(visited, id) == neighborhood_of(id) \ visited

-----------------------------------------------------------------------------
(* A caller of the Pool API: any sequence of new_node, make_adjacent,      *)
(* link_cells and unlink_cells on existing ids.                            *)

GenIdle == /\ width = 0 /\ height = 0
           /\ alg = "none" /\ pc = "idle" /\ frame = NoFrame

Init == /\ nodes = Pool_new.nodes
        /\ adjacencies = Pool_new.adjacencies
        /\ links = Pool_new.links
        /\ panicked = FALSE
        /\ call = NoCall
        /\ all_bidirectional = TRUE
        /\ GenIdle

NewNode ==
    /\ ~panicked
    /\ nodes < MaxPoolNodes
    /\ nodes' = nodes + 1
    /\ adjacencies' = new_node(nodes, adjacencies)
    /\ links' = new_node(nodes, links)
    /\ call' = [op |-> "new_node", id |-> nodes]
    /\ UNCHANGED <<panicked, all_bidirectional, width, height, alg, pc, frame>>

MakeAdjacent ==
    /\ ~panicked
    /\ \E here \in NodeIds, there \in NodeIds, bidirectional \in BOOLEAN :
          /\ adjacencies' = make_adjacent(adjacencies, here, there, bidirectional)
          /\ call' = [op |-> "make_adjacent", here |-> here, there |-> there,
                      bidirectional |-> bidirectional]
          /\ all_bidirectional' = (all_bidirectional /\ bidirectional)
    /\ UNCHANGED <<nodes, links, panicked, width, height, alg, pc, frame>>

LinkCells ==
    /\ ~panicked
    /\ \E here \in NodeIds, there \in NodeIds, bidirectional \in BOOLEAN :
          LET r == link_cells(links, adjacencies, here, there, bidirectional)
          IN  /\ links' = r.links
              /\ panicked' = r.panicked
              /\ call' = [op |-> "link_cells", here |-> here, there |-> there,
                          bidirectional |-> bidirectional]
              /\ all_bidirectional' = (all_bidirectional /\ bidirectional)
    /\ UNCHANGED <<nodes, adjacencies, width, height, alg, pc, frame>>

UnlinkCells ==
    /\ ~panicked
    /\ \E here \in NodeIds, there \in NodeIds, bidirectional \in BOOLEAN :
          /\ links' = unlink_cells(links, here, there, bidirectional)
          /\ call' = [op |-> "unlink_cells", here |-> here, there |-> there,
                      bidirectional |-> bidirectional]
          /\ all_bidirectional' = (all_bidirectional /\ bidirectional)
    /\ UNCHANGED <<nodes, adjacencies, panicked, width, height, alg, pc, frame>>

Next == NewNode \/ MakeAdjacent \/ LinkCells \/ UnlinkCells

Spec == Init /\ [][Next]_vars

-----------------------------------------------------------------------------
(* Claims about the Pool API, checked under Spec. *)

\* C1: in every state reached by new_node, make_adjacent, link_cells and
\* unlink_cells calls, every link is an adjacency: b in links(a) implies
\* b in adjacencies(a).
C1_LinksAreAdjacencies ==
    \A a \in NodeIds : links[a] \subseteq adjacencies[a]

\* C1 witness: a link has been carved after a one-directional adjacency.
C1_Witness ==
    /\ call.op = "link_cells"
    /\ ~panicked
    /\ \E a \in NodeIds, b \in NodeIds :
          b \in links[a] /\ a \notin adjacencies[b]

\* Whether the pair of a link_cells call is adjacent as the call requires.
\* link_cells does not write adjacencies, so they are those the call saw.
CallPairAdjacent ==
    /\ call.there \in adjacencies[call.here]
    /\ (call.bidirectional => call.here \in adjacencies[call.there])

\* C2: a link_cells call on a pair that is not adjacent (b not in a's
\* adjacency set, or with bidirectional = true a not in b's) panics; it never
\* returns normally.
C2_LinkNonAdjacentPanics ==
    (call.op = "link_cells" /\ ~CallPairAdjacent) => panicked

\* C2 witness: a bidirectional link_cells call has panicked on a pair that is
\* adjacent in the forward direction only.
C2_Witness ==
    /\ call.op = "link_cells"
    /\ call.bidirectional
    /\ call.there \in adjacencies[call.here]
    /\ call.here \notin adjacencies[call.there]
    /\ panicked

Symmetric(f) == \A a \in NodeIds, b \in NodeIds : (b \in f[a]) <=> (a \in f[b])

\* C3: while every make_adjacent, link_cells and unlink_cells call has passed
\* bidirectional = true, adjacency and links are both symmetric.
C3_BidirectionalSymmetric ==
    all_bidirectional => (Symmetric(adjacencies) /\ Symmetric(links))

\* C3 witness: two distinct nodes made adjacent and linked, then unlinked,
\* by bidirectional calls only.
C3_Witness ==
    /\ all_bidirectional
    /\ call.op = "unlink_cells"
    /\ call.here # call.there
    /\ call.there \in adjacencies[call.here]
    /\ call.there \notin links[call.here]
    /\ \E a \in NodeIds : links[a] # {}

-----------------------------------------------------------------------------
(* Graph notions the claims are stated in. f is a relation given as a       *)
(* function from ids to sets of ids, S a set of ids.                        *)

\* The ids reachable from the set R by following f inside S.
RECURSIVE ReachIn(_, _, _)
ReachIn(f, S, R) ==
    LET more == (UNION {f[a] : a \in R}) \cap S
    IN  IF more \subseteq R THEN R ELSE ReachIn(f, S, R \cup more)

\* Every node of S reaches every node of S by f inside S.
ConnectedOn(f, S) == \A a \in S : ReachIn(f, S, {a}) = S

\* The undirected edges of f inside S (a self-loop is the edge {a}).
EdgesOn(f, S) == UNION {{{a, b} : b \in f[a] \cap S} : a \in S}

\* The connected components of f inside S (f symmetric).
ComponentsOn(f, S) == {ReachIn(f, S, {a}) : a \in S}

\* No cycle: a forest has as many edges as nodes minus components.
AcyclicOn(f, S) ==
    /\ \A a \in S : a \notin f[a]
    /\ Cardinality(EdgesOn(f, S)) = Cardinality(S) - Cardinality(ComponentsOn(f, S))

AdjConnected == ConnectedOn(adjacencies, NodeIds)
AdjSymmetric == Symmetric(adjacencies)
LinkConnected == ConnectedOn(links, NodeIds)
LinkAcyclic == AcyclicOn(links, NodeIds)
UndirectedLinks == EdgesOn(links, NodeIds)

\* The link graph is a spanning tree: symmetric, connected, acyclic, |V| - 1 links.
LinkSpanningTree ==
    /\ Symmetric(links)
    /\ LinkConnected
    /\ LinkAcyclic
    /\ Cardinality(UndirectedLinks) = nodes - 1

-----------------------------------------------------------------------------
(* The pools handed to the generation algorithms.                          *)

\* A pool built by new_node and bidirectional make_adjacent calls: any
\* symmetric adjacency over n nodes (a node may be adjacent to itself:
\* make_adjacent does not refuse here = there), no links.
PossibleEdges(n) == {e \in SUBSET (0 .. (n - 1)) : Cardinality(e) \in {1, 2}}
AdjacencyOf(n, E) == [i \in 0 .. (n - 1) |-> {j \in 0 .. (n - 1) : {i, j} \in E}]
NoLinks(n) == [i \in 0 .. (n - 1) |-> {}]

\* FlatSquareGrid::new and stitch: ids in row-major order, each cell adjacent
\* to its north, south, west and east neighbours inside the grid.
node_grid(w, row, col) == row * w + col
cell_row(w, id) == id \div w
cell_col(w, id) == id % w
stitch(w, h) ==
    [id \in 0 .. (w * h - 1) |->
        LET row == cell_row(w, id)
            col == cell_col(w, id)
        IN  (IF row > 0 THEN {node_grid(w, row - 1, col)} ELSE {})
            \cup (IF row < h - 1 THEN {node_grid(w, row + 1, col)} ELSE {})
            \cup (IF col > 0 THEN {node_grid(w, row, col - 1)} ELSE {})
            \cup (IF col < w - 1 THEN {node_grid(w, row, col + 1)} ELSE {})]

\* FlatSquareCell.north and .east of a cell, as a set (empty for None).
north(id) == IF cell_row(width, id) > 0
             THEN {node_grid(width, cell_row(width, id) - 1, cell_col(width, id))}
             ELSE {}
east(id) == IF cell_col(width, id) < width - 1
            THEN {node_grid(width, cell_row(width, id), cell_col(width, id) + 1)}
            ELSE {}

GraphAlgorithms == {"aldous_broder", "hunt_and_kill", "recursive_backtracker", "wilson"}
GridAlgorithms == {"binary_tree", "sidewinder"}

GraphPoolInit ==
    /\ \E n \in 0 .. MaxNodes : \E E \in SUBSET PossibleEdges(n) :
          /\ nodes = n
          /\ adjacencies = AdjacencyOf(n, E)
          /\ links = NoLinks(n)
    /\ width = 0 /\ height = 0

GridPoolInit ==
    \E w \in 1 .. MaxDim, h \in 1 .. MaxDim :
        /\ width = w /\ height = h
        /\ nodes = w * h
        /\ adjacencies = stitch(w, h)
        /\ links = NoLinks(w * h)

GenInit(a) ==
    /\ IF a \in GridAlgorithms THEN GridPoolInit ELSE GraphPoolInit
    /\ alg = a
    /\ pc = "start"
    /\ frame = NoFrame
    /\ panicked = FALSE
    /\ call = NoCall
    /\ all_bidirectional = TRUE

\* What no generation step writes.
GenFrame == UNCHANGED <<nodes, adjacencies, call, all_bidirectional, width, height, alg>>

\* A panic: the links written so far stay, the algorithm stops.
Panic(lk) ==
    /\ links' = lk
    /\ panicked' = TRUE
    /\ pc' = "panicked"
    /\ UNCHANGED frame

-----------------------------------------------------------------------------
(* Pool::aldous_broder: src/src/pool.rs 128-141 (FlatSquareGrid::aldous_broder, *)
(* src/src/grid/mod.rs 271-284, is the same loop over the same adjacency).  *)

\* get_random_node_id panics on an empty pool (sample_uniform of an empty
\* slice); otherwise any node is the start and n - 1 nodes are unvisited.
AldousBroderStart ==
    /\ alg = "aldous_broder" /\ pc = "start"
    /\ IF nodes = 0
       THEN Panic(links)
       ELSE /\ \E cell \in NodeIds :
                  frame' = [cell |-> cell, unvisited_count |-> nodes - 1]
            /\ pc' = IF nodes - 1 > 0 THEN "loop" ELSE "done"
            /\ UNCHANGED <<links, panicked>>
    /\ GenFrame

\* One iteration of the while loop: indexing an empty neighbour list panics;
\* a neighbour without links is linked to the current cell and counted.
AldousBroderStep ==
    /\ alg = "aldous_broder" /\ pc = "loop"
    /\ frame.unvisited_count > 0
    /\ LET neighbors == neighborhood_of(frame.cell)
       IN  IF neighbors = {}
           THEN Panic(links)
           ELSE \E random_neighbor \in neighbors :
                   IF links[random_neighbor] = {}
                   THEN LET r == link_cells(links, adjacencies, frame.cell,
                                            random_neighbor, TRUE)
                        IN  IF r.panicked
                            THEN Panic(r.links)
                            ELSE /\ links' = r.links
                                 /\ frame' = [cell |-> random_neighbor,
                                              unvisited_count |-> frame.unvisited_count - 1]
                                 /\ pc' = IF frame.unvisited_count - 1 > 0
                                          THEN "loop" ELSE "done"
                                 /\ UNCHANGED panicked
                   ELSE /\ frame' = [frame EXCEPT !.cell = random_neighbor]
                        /\ UNCHANGED <<links, panicked, pc>>
    /\ GenFrame

AldousBroderNext == AldousBroderStart \/ AldousBroderStep

SpecAldousBroder == GenInit("aldous_broder") /\ [][AldousBroderNext]_vars

-----------------------------------------------------------------------------
(* Pool::hunt_and_kill and Pool::scan_frontier: src/src/pool.rs 143-184.   *)

\* Mutant: the scan accepts a node that is already visited.
scan_frontier_any(visited) ==
    LET found == {n \in NodeIds : walls_of(n) \cap visited # {}}
    IN  IF found = {}
        THEN {[found |-> FALSE]}
        ELSE LET node == CHOOSE n \in found : \A m \in found : n <= m
             IN  {[found |-> TRUE, unvisited |-> node, visited |-> wall] :
                    wall \in walls_of(node) \cap visited}

\* Mutant: the two fields of Found are exchanged.
scan_frontier_swapped(visited) ==
    LET found == {n \in NodeIds \ visited : walls_of(n) \cap visited # {}}
    IN  IF found = {}
        THEN {[found |-> FALSE]}
        ELSE LET node == CHOOSE n \in found : \A m \in found : n <= m
             IN  {[found |-> TRUE, unvisited |-> wall, visited |-> node] :
                    wall \in walls_of(node) \cap visited}

\* scan_frontier: the results the scan can return. Nodes are scanned in id
\* order, so the unvisited node is the least one with a visited wall; the
\* walls of a node are a HashSet, so which visited wall is met first is not
\* determined.
scan_frontier(visited) ==
    LET found == {n \in NodeIds \ visited : walls_of(n) \cap visited # {}}
    IN  IF found = {}
        THEN {[found |-> FALSE]}
        ELSE LET node == CHOOSE n \in found : \A m \in found : n <= m
             IN  {[found |-> TRUE, unvisited |-> node, visited |-> wall] :
                    wall \in walls_of(node) \cap visited}

\* An empty pool returns at once; otherwise the first node is visited.
HuntAndKillStart ==
    /\ alg = "hunt_and_kill" /\ pc = "start"
    /\ IF nodes = 0
       THEN pc' = "done" /\ UNCHANGED frame
       ELSE pc' = "scan" /\ frame' = [visited |-> {0}]
    /\ UNCHANGED <<links, panicked>>
    /\ GenFrame

\* The head of the outer loop: a frontier pair is linked and the walk starts
\* at its unvisited node; no frontier ends the algorithm.
HuntAndKillScan ==
    /\ alg = "hunt_and_kill" /\ pc = "scan"
    /\ \E res \in scan_frontier(frame.visited) :
          IF ~res.found
          THEN pc' = "done" /\ UNCHANGED <<links, panicked, frame>>
          ELSE LET r == link_cells(links, adjacencies, res.unvisited, res.visited, TRUE)
               IN  IF r.panicked
                   THEN Panic(r.links)
                   ELSE /\ links' = r.links
                        /\ frame' = [visited |-> frame.visited \cup {res.unvisited},
                                     current_cell |-> res.unvisited]
                        /\ pc' = "walk"
                        /\ UNCHANGED panicked
    /\ GenFrame

\* The inner loop: while the current cell has unvisited walls, link one of
\* them and move there; with none left, back to the scan.
HuntAndKillWalk ==
    /\ alg = "hunt_and_kill" /\ pc = "walk"
    /\ LET walls == {n \in walls_of(frame.current_cell) : n \notin frame.visited}
       IN  IF walls = {}
           THEN /\ pc' = "scan"
                /\ frame' = [visited |-> frame.visited]
                /\ UNCHANGED <<links, panicked>>
           ELSE \E next_cell \in walls :
                   LET r == link_cells(links, adjacencies, frame.current_cell,
                                       next_cell, TRUE)
                   IN  IF r.panicked
                       THEN Panic(r.links)
                       ELSE /\ links' = r.links
                            /\ frame' = [visited |-> frame.visited \cup {next_cell},
                                         current_cell |-> next_cell]
                            /\ UNCHANGED <<panicked, pc>>
    /\ GenFrame

HuntAndKillNext == HuntAndKillStart \/ HuntAndKillScan \/ HuntAndKillWalk

SpecHuntAndKill == GenInit("hunt_and_kill") /\ [][HuntAndKillNext]_vars

-----------------------------------------------------------------------------
(* FlatSquareGrid::recursive_backtracker: src/src/grid/mod.rs 291-312.     *)

\* Mutant: the start node is pushed but not marked visited.
recursive_backtracker_start_unvisited(start) == [visited |-> {}, stack |-> <<start>>]

\* Mutant: the walk starts at the last node of the pool.
recursive_backtracker_start_last(start) ==
    [visited |-> {nodes - 1}, stack |-> <<nodes - 1>>]

\* The initial visited set and stack.
recursive_backtracker_start(start) == [visited |-> {start}, stack |-> <<start>>]

\* get_arbitrary_node_id indexes nodes[0]: a panic on an empty pool.
RecursiveBacktrackerStart ==
    /\ alg = "recursive_backtracker" /\ pc = "start"
    /\ IF nodes = 0
       THEN Panic(links)
       ELSE /\ frame' = recursive_backtracker_start(0)
            /\ pc' = "loop"
            /\ UNCHANGED <<links, panicked>>
    /\ GenFrame

\* One iteration of the while-let loop on a non-empty stack: pop when the
\* top has no unvisited neighbour, else link one, push it and mark it.
RecursiveBacktrackerStep ==
    /\ alg = "recursive_backtracker" /\ pc = "loop"
    /\ frame.stack # <<>>
    /\ LET top_of_stack == frame.stack[Len(frame.stack)]
           viable_cells == unvisited_neighborhood_of(frame.visited, top_of_stack)
       IN  IF viable_cells = {}
           THEN /\ frame' = [frame EXCEPT !.stack = SubSeq(@, 1, Len(@) - 1)]
                /\ pc' = IF Len(frame.stack) = 1 THEN "done" ELSE "loop"
                /\ UNCHANGED <<links, panicked>>
           ELSE \E next_cell \in viable_cells :
                   LET r == link_cells(links, adjacencies, top_of_stack, next_cell, TRUE)
                   IN  IF r.panicked
                       THEN Panic(r.links)
                       ELSE /\ links' = r.links
                            /\ frame' = [visited |-> frame.visited \cup {next_cell},
                                         stack |-> Append(frame.stack, next_cell)]
                            /\ UNCHANGED <<panicked, pc>>
    /\ GenFrame

RecursiveBacktrackerNext == RecursiveBacktrackerStart \/ RecursiveBacktrackerStep

SpecRecursiveBacktracker ==
    GenInit("recursive_backtracker") /\ [][RecursiveBacktrackerNext]_vars

-----------------------------------------------------------------------------
(* Walker: src/src/grid/walker.rs 10-87. A walker is a record              *)
(* [start_node, path].                                                     *)

Walker_new(start_node) == [start_node |-> start_node, path |-> <<>>]

\* Walker::steps_on: "Start", <<"Middle", i>> with i the 0-based index of the
\* first occurrence, or "Never".
steps_on(w, node) ==
    IF w.start_node = node
    THEN <<"Start", 0>>
    ELSE LET hits == {i \in 1 .. Len(w.path) : w.path[i] = node}
         IN  IF hits = {}
             THEN <<"Never", 0>>
             ELSE <<"Middle", (CHOOSE i \in hits : \A j \in hits : i <= j) - 1>>

\* Vec::truncate(len): keeps the first len elements.
truncate(path, len) == SubSeq(path, 1, len)

\* Mutant: a node that is already on the path is appended again.
loop_erased_step_no_erase(w, next_cell) ==
    [w EXCEPT !.path = Append(@, next_cell)]

\* Mutant: the path is cut after the repeated node instead of before it.
loop_erased_step_keep_repeat(w, next_cell) ==
    LET on == steps_on(w, next_cell)
    IN  CASE on[1] = "Start" -> [w EXCEPT !.path = truncate(@, 0)]
          [] on[1] = "Middle" -> [w EXCEPT !.path = truncate(@, on[2] + 1)]
          [] on[1] = "Never" -> [w EXCEPT !.path = Append(@, next_cell)]

\* Mutant: only the repeated node is taken out of the path, the steps after
\* it stay.
loop_erased_step_drop_repeat(w, next_cell) ==
    LET on == steps_on(w, next_cell)
    IN  CASE on[1] = "Start" -> [w EXCEPT !.path = truncate(@, 0)]
          [] on[1] = "Middle" ->
                [w EXCEPT !.path = truncate(@, on[2]) \o SubSeq(@, on[2] + 2, Len(@))]
          [] on[1] = "Never" -> [w EXCEPT !.path = Append(@, next_cell)]

\* Walker::loop_erased_step.
loop_erased_step(w, next_cell) ==
    LET on == steps_on(w, next_cell)
    IN  CASE on[1] = "Start" -> [w EXCEPT !.path = truncate(@, 0)]
          [] on[1] = "Middle" -> [w EXCEPT !.path = truncate(@, on[2])]
          [] on[1] = "Never" -> [w EXCEPT !.path = Append(@, next_cell)]

\* Walker::total_path and Walker::final_node.
total_path(w) == <<w.start_node>> \o w.path
final_node(w) == IF w.path = <<>> THEN w.start_node ELSE w.path[Len(w.path)]

\* Walker::carve_path: link_cells on each window of two of the total path,
\* in order, stopping at the first panic.
RECURSIVE carve_from(_, _, _, _)
carve_from(lk, adj, path, i) ==
    IF i >= Len(path)
    THEN [links |-> lk, panicked |-> FALSE]
    ELSE LET r == link_cells(lk, adj, path[i], path[i + 1], TRUE)
         IN  IF r.panicked THEN r ELSE carve_from(r.links, adj, path, i + 1)

\* Mutant: the windows are taken over the stored path, without the start.
carve_path_without_start(w, lk, adj) == carve_from(lk, adj, w.path, 1)

\* Mutant: each window is linked from its first node to its second only.
carve_path_one_way(w, lk, adj) ==
    LET tp == <<w.start_node>> \o w.path
        r == carve_from(lk, adj, tp, 1)
    IN  [r EXCEPT !.links =
            [n \in DOMAIN lk |->
                lk[n] \cup {m \in r.links[n] :
                               \E i \in 1 .. (Len(tp) - 1) : tp[i] = n /\ tp[i + 1] = m}]]

carve_path(w, lk, adj) == carve_from(lk, adj, total_path(w), 1)

SeqRange(q) == {q[i] : i \in 1 .. Len(q)}

\* A mutant of random_loop_erased_step that leaves the walker as it is when
\* the neighbourhood is empty, and returns.
random_loop_erased_step_staying(w, neighborhood) ==
    IF neighborhood = {}
    THEN {[panicked |-> FALSE, walker |-> w]}
    ELSE {[panicked |-> FALSE, walker |-> loop_erased_step(w, new_head)] :
             new_head \in neighborhood}

\* Walker::random_loop_erased_step, given pool.neighborhood_of(final_node):
\* choose(rng) is None on an empty neighbourhood, which panics; otherwise
\* any neighbour is the new head.  The set of the possible outcomes.
random_loop_erased_step(w, neighborhood) ==
    IF neighborhood = {}
    THEN {[panicked |-> TRUE, walker |-> w]}
    ELSE {[panicked |-> FALSE, walker |-> loop_erased_step(w, new_head)] :
             new_head \in neighborhood}

\* Mutant: the walk goes on only until the walker has left its start.
loop_erased_walk_into_haystack_one_step(w, targets) ==
    w.path = <<>> /\ w.start_node \notin targets

\* Walker::loop_erased_walk_into_haystack, the condition of its while loop:
\* the walk goes on while the final node is not a target.
loop_erased_walk_into_haystack(w, targets) == final_node(w) \notin targets

-----------------------------------------------------------------------------
(* FlatSquareGrid::wilson: src/src/grid/walker.rs 94-110.                  *)

\* starts_list holds the ids in order; the last one is popped into the
\* visited set (an empty pool has nothing to pop).
WilsonStart ==
    /\ alg = "wilson" /\ pc = "start"
    /\ LET starts_list == [i \in 1 .. nodes |-> i - 1]
       IN  frame' = IF nodes = 0
                    THEN [starts_list |-> <<>>, visited_set |-> {}]
                    ELSE [starts_list |-> SubSeq(starts_list, 1, nodes - 1),
                          visited_set |-> {starts_list[nodes]}]
    /\ pc' = "pop"
    /\ UNCHANGED <<links, panicked>>
    /\ GenFrame

\* The head of the while-let loop: pop the next start and make its walker,
\* or finish when the list is empty.
WilsonPop ==
    /\ alg = "wilson" /\ pc = "pop"
    /\ IF frame.starts_list = <<>>
       THEN pc' = "done" /\ UNCHANGED frame
       ELSE /\ pc' = "walk"
            /\ frame' = [starts_list |-> SubSeq(frame.starts_list, 1,
                                                Len(frame.starts_list) - 1),
                         visited_set |-> frame.visited_set,
                         path |-> Walker_new(frame.starts_list[Len(frame.starts_list)])]
    /\ UNCHANGED <<links, panicked>>
    /\ GenFrame

\* loop_erased_walk_into_haystack, one random_loop_erased_step: while the
\* final node is not visited, step to any of its neighbours; a final node
\* without neighbours panics.
WilsonWalk ==
    /\ alg = "wilson" /\ pc = "walk"
    /\ loop_erased_walk_into_haystack(frame.path, frame.visited_set)
    /\ \E r \in random_loop_erased_step(frame.path,
                                         neighborhood_of(final_node(frame.path))) :
          IF r.panicked
          THEN Panic(links)
          ELSE /\ frame' = [frame EXCEPT !.path = r.walker]
               /\ UNCHANGED <<links, panicked, pc>>
    /\ GenFrame

\* The walk has reached the visited set: carve the path and add its nodes.
WilsonCarve ==
    /\ alg = "wilson" /\ pc = "walk"
    /\ ~loop_erased_walk_into_haystack(frame.path, frame.visited_set)
    /\ LET r == carve_path(frame.path, links, adjacencies)
       IN  IF r.panicked
           THEN Panic(r.links)
           ELSE /\ links' = r.links
                /\ frame' = [starts_list |-> frame.starts_list,
                             visited_set |-> frame.visited_set
                                             \cup SeqRange(total_path(frame.path))]
                /\ pc' = "pop"
                /\ UNCHANGED panicked
    /\ GenFrame

WilsonNext == WilsonStart \/ WilsonPop \/ WilsonWalk \/ WilsonCarve

SpecWilson == GenInit("wilson") /\ [][WilsonNext]_vars

-----------------------------------------------------------------------------
(* FlatSquareGrid::binary_tree: src/src/grid/mod.rs 218-238.               *)

\* nebs: north first, then east, those that exist.
nebs(id) ==
    (IF north(id) # {} THEN <<CHOOSE n \in north(id) : TRUE>> ELSE <<>>)
    \o (IF east(id) # {} THEN <<CHOOSE e \in east(id) : TRUE>> ELSE <<>>)

\* Mutant: a cell with both neighbours is linked to both.
binary_tree_targets_both(id) == {nebs(id)}

\* The neighbours one iteration can link the cell to, as the sequences of
\* link_cells targets it can issue: the only neighbour, either of the two
\* (the draw against the probability decides), or none.
binary_tree_targets(id) ==
    IF Len(nebs(id)) = 1 THEN {<<nebs(id)[1]>>}
    ELSE IF Len(nebs(id)) = 2 THEN {<<nebs(id)[1]>>, <<nebs(id)[2]>>}
    ELSE {<<>>}

\* link_cells(here, t, true) for each t of targets in order, stopping at the
\* first panic.
RECURSIVE link_each(_, _, _, _)
link_each(lk, adj, here, targets) ==
    IF targets = <<>>
    THEN [links |-> lk, panicked |-> FALSE]
    ELSE LET r == link_cells(lk, adj, here, Head(targets), TRUE)
         IN  IF r.panicked THEN r ELSE link_each(r.links, adj, here, Tail(targets))

BinaryTreeStart ==
    /\ alg = "binary_tree" /\ pc = "start"
    /\ frame' = [cell_id |-> 0]
    /\ pc' = IF nodes = 0 THEN "done" ELSE "loop"
    /\ UNCHANGED <<links, panicked>>
    /\ GenFrame

\* One iteration of the loop over iter_node_ids.
BinaryTreeCell ==
    /\ alg = "binary_tree" /\ pc = "loop"
    /\ frame.cell_id < nodes
    /\ \E targets \in binary_tree_targets(frame.cell_id) :
          LET r == link_each(links, adjacencies, frame.cell_id, targets)
          IN  IF r.panicked
              THEN Panic(r.links)
              ELSE /\ links' = r.links
                   /\ frame' = [cell_id |-> frame.cell_id + 1]
                   /\ pc' = IF frame.cell_id + 1 < nodes THEN "loop" ELSE "done"
                   /\ UNCHANGED panicked
    /\ GenFrame

BinaryTreeNext == BinaryTreeStart \/ BinaryTreeCell

SpecBinaryTree == GenInit("binary_tree") /\ [][BinaryTreeNext]_vars

-----------------------------------------------------------------------------
(* FlatSquareGrid::sidewinder, link_cells_at, get_by_position, take_out_of: *)
(* src/src/grid/mod.rs 188-216, 240-269, 314-321.                          *)

\* Mutant: the bounds are asserted the right way round (row against height,
\* column against width).
link_cells_at_by_rows(lk, here, there) ==
    IF ~(here[1] < height /\ there[1] < height) THEN [links |-> lk, panicked |-> TRUE]
    ELSE IF ~(here[2] < width /\ there[2] < width) THEN [links |-> lk, panicked |-> TRUE]
    ELSE link_cells(lk, adjacencies, node_grid(width, here[1], here[2]),
                    node_grid(width, there[1], there[2]), TRUE)

\* link_cells_at(here, there) with here and there as the callers pass them,
\* (row, column): the asserts compare the first component with the width and
\* the second with the height; get_by_position then panics unless
\* row < height and column < width.
link_cells_at(lk, here, there) ==
    IF ~(here[1] < width /\ there[1] < width) THEN [links |-> lk, panicked |-> TRUE]
    ELSE IF ~(here[2] < height /\ there[2] < height) THEN [links |-> lk, panicked |-> TRUE]
    ELSE IF here[1] >= height \/ here[2] >= width THEN [links |-> lk, panicked |-> TRUE]
    ELSE IF there[1] >= height \/ there[2] >= width THEN [links |-> lk, panicked |-> TRUE]
    ELSE link_cells(lk, adjacencies, node_grid(width, here[1], here[2]),
                    node_grid(width, there[1], there[2]), TRUE)

\* link_cells_at for each pair of calls in order, stopping at the first panic.
RECURSIVE link_all_at(_, _)
link_all_at(lk, calls) ==
    IF calls = <<>>
    THEN [links |-> lk, panicked |-> FALSE]
    ELSE LET r == link_cells_at(lk, Head(calls)[1], Head(calls)[2])
         IN  IF r.panicked THEN r ELSE link_all_at(r.links, Tail(calls))

\* take_out_of(max): the coin flips can stop at any count from 1 to max.
take_out_of(max) == 1 .. max

\* The link_cells_at calls of one hallway: the horizontal links of the run,
\* then the door to the row above.
hallway_calls(row, hallway_start, taken, hallway_door) ==
    [dcol \in 1 .. (taken - 1) |->
        <<<<row, hallway_start + dcol - 1>>, <<row, hallway_start + dcol>>>>]
    \o <<<<<<row, hallway_start + hallway_door>>,
           <<row - 1, hallway_start + hallway_door>>>>>>

\* The link_cells_at calls of the final loop over row 0.
first_row_calls == [i \in 1 .. (width - 1) |-> <<<<0, i - 1>>, <<0, i>>>>]

SidewinderStart ==
    /\ alg = "sidewinder" /\ pc = "start"
    /\ frame' = [row |-> 1, hallway_start |-> 0]
    /\ pc' = "rows"
    /\ UNCHANGED <<links, panicked>>
    /\ GenFrame

\* One iteration of the while loop of a row: a hallway of taken cells.
SidewinderHallway ==
    /\ alg = "sidewinder" /\ pc = "rows"
    /\ frame.row < height
    /\ frame.hallway_start < width - 1
    /\ \E taken \in take_out_of(width - frame.hallway_start) :
       \E hallway_door \in 0 .. (taken - 1) :
          LET r == link_all_at(links, hallway_calls(frame.row, frame.hallway_start,
                                                    taken, hallway_door))
          IN  IF r.panicked
              THEN Panic(r.links)
              ELSE /\ links' = r.links
                   /\ frame' = [frame EXCEPT !.hallway_start = @ + taken]
                   /\ UNCHANGED <<panicked, pc>>
    /\ GenFrame

\* The end of a row: a last cell left alone is linked to the row above.
SidewinderRowEnd ==
    /\ alg = "sidewinder" /\ pc = "rows"
    /\ frame.row < height
    /\ ~(frame.hallway_start < width - 1)
    /\ LET r == IF frame.hallway_start = width - 1
                THEN link_all_at(links, <<<<<<frame.row, width - 1>>,
                                            <<frame.row - 1, width - 1>>>>>>)
                ELSE [links |-> links, panicked |-> FALSE]
       IN  IF r.panicked
           THEN Panic(r.links)
           ELSE /\ links' = r.links
                /\ frame' = [row |-> frame.row + 1, hallway_start |-> 0]
                /\ UNCHANGED <<panicked, pc>>
    /\ GenFrame

\* After the rows: row 0 is linked from end to end.
SidewinderFirstRow ==
    /\ alg = "sidewinder" /\ pc = "rows"
    /\ ~(frame.row < height)
    /\ LET r == link_all_at(links, first_row_calls)
       IN  IF r.panicked
           THEN Panic(r.links)
           ELSE /\ links' = r.links
                /\ pc' = "done"
                /\ UNCHANGED <<panicked, frame>>
    /\ GenFrame

SidewinderNext ==
    SidewinderStart \/ SidewinderHallway \/ SidewinderRowEnd \/ SidewinderFirstRow

SpecSidewinder == GenInit("sidewinder") /\ [][SidewinderNext]_vars

-----------------------------------------------------------------------------
(* Any of the six generation algorithms on any of its pools.               *)

Algorithms == GraphAlgorithms \cup GridAlgorithms

GenNext ==
    \/ AldousBroderNext
    \/ HuntAndKillNext
    \/ RecursiveBacktrackerNext
    \/ WilsonNext
    \/ BinaryTreeNext
    \/ SidewinderNext

SpecGen == (\E a \in Algorithms : GenInit(a)) /\ [][GenNext]_vars

-----------------------------------------------------------------------------
(* Claims about the generation algorithms. *)

\* C4: during a run of any of the six generation algorithms no node is
\* added, no adjacency set changes and link sets only grow: every step keeps
\* the links it found.
C4_GenerationOnlyAddsLinks ==
    [][/\ nodes' = nodes
       /\ adjacencies' = adjacencies
       /\ \A a \in NodeIds : links[a] \subseteq links'[a]]_vars

\* C4 witness: a run has carved links into a node that already had one.
C4_Witness ==
    /\ alg \in Algorithms
    /\ pc = "done"
    /\ \E a \in NodeIds : Cardinality(links[a]) >= 2

\* C5: on a pool of at least 2 nodes with connected symmetric adjacency,
\* aldous_broder ends with a link graph that is connected and acyclic, with
\* exactly |V| - 1 undirected links.
C5_AldousBroderSpanningTree ==
    (alg = "aldous_broder" /\ pc = "done" /\ nodes >= 2
        /\ AdjConnected /\ AdjSymmetric)
    => LinkSpanningTree

\* C6: on a non-empty pool with connected symmetric adjacency, hunt_and_kill
\* ends with a link graph that is connected and acyclic, with exactly
\* |V| - 1 undirected links.
C6_HuntAndKillSpanningTree ==
    (alg = "hunt_and_kill" /\ pc = "done" /\ nodes >= 1
        /\ AdjConnected /\ AdjSymmetric)
    => LinkSpanningTree

\* C6 witness: hunt_and_kill has finished on a connected pool of four nodes
\* whose adjacency has a cycle.
C6_Witness ==
    /\ alg = "hunt_and_kill" /\ pc = "done"
    /\ nodes = 4 /\ AdjConnected
    /\ ~AcyclicOn(adjacencies, NodeIds)
    /\ Cardinality(UndirectedLinks) = 3

\* C7: on a non-empty pool with connected symmetric adjacency,
\* recursive_backtracker ends (stack empty) with a link graph that is
\* connected and acyclic, with exactly |V| - 1 undirected links.
C7_RecursiveBacktrackerSpanningTree ==
    (alg = "recursive_backtracker" /\ pc = "done" /\ nodes >= 1
        /\ AdjConnected /\ AdjSymmetric)
    => (frame.stack = <<>> /\ LinkSpanningTree)

\* C7 witness: recursive_backtracker has emptied its stack on a connected
\* pool of four nodes whose adjacency has a cycle.
C7_Witness ==
    /\ alg = "recursive_backtracker" /\ pc = "done"
    /\ frame.stack = <<>>
    /\ nodes = 4 /\ AdjConnected
    /\ ~AcyclicOn(adjacencies, NodeIds)
    /\ Cardinality(UndirectedLinks) = 3

\* The links inside S form a tree that spans S, and no link leaves S.
LinkTreeOn(S) ==
    /\ ConnectedOn(links, S)
    /\ AcyclicOn(links, S)
    /\ Cardinality(EdgesOn(links, S)) = Cardinality(S) - 1
    /\ \A a \in NodeIds : links[a] # {} => (a \in S /\ links[a] \subseteq S)

\* C8: on a pool of at least one node with connected symmetric adjacency,
\* after each carve of wilson the links form a tree spanning the visited
\* set, and when wilson ends no node is unvisited and the link graph is
\* connected and acyclic with exactly |V| - 1 undirected links.
C8_WilsonSpanningTree ==
    (alg = "wilson" /\ nodes >= 1 /\ AdjConnected /\ AdjSymmetric)
    => /\ pc \in {"pop", "done"} => LinkTreeOn(frame.visited_set)
       /\ pc = "done" => (frame.visited_set = NodeIds /\ LinkSpanningTree)

\* C8 witness: wilson has finished on a connected pool of four nodes whose
\* adjacency has a cycle.
C8_Witness ==
    /\ alg = "wilson" /\ pc = "done"
    /\ nodes = 4 /\ AdjConnected
    /\ ~AcyclicOn(adjacencies, NodeIds)
    /\ frame.visited_set = NodeIds
    /\ Cardinality(UndirectedLinks) = 3

\* Row 0 is linked from end to end.
FirstRowLinked ==
    \A col \in 0 .. (width - 2) :
        node_grid(width, 0, col + 1) \in links[node_grid(width, 0, col)]

\* C9: on every width x height grid with width >= 1 and height >= 1, square
\* or not, sidewinder runs to completion without a panic and ends with a
\* connected link graph whose first row is linked entirely horizontally.
C9_SidewinderCompletes ==
    (alg = "sidewinder" /\ width >= 1 /\ height >= 1)
    => /\ ~panicked
       /\ pc = "done" => (LinkConnected /\ FirstRowLinked)

\* The north and east neighbours of a cell.
NorthEast(id) == north(id) \cup east(id)

\* C10: on every width x height grid with width >= 1 and height >= 1,
\* binary_tree ends with each cell that has a north or an east neighbour
\* linked to exactly one of them, the north-east corner linked to neither
\* (it has links only to its west and south neighbours), and a connected
\* link graph.
C10_BinaryTree ==
    (alg = "binary_tree" /\ pc = "done" /\ width >= 1 /\ height >= 1)
    => /\ ~panicked
       /\ \A id \in NodeIds :
             NorthEast(id) # {} => Cardinality(links[id] \cap NorthEast(id)) = 1
       /\ LET corner == node_grid(width, 0, width - 1)
          IN  /\ NorthEast(corner) = {}
              /\ \A n \in links[corner] :
                    corner \in NorthEast(n)
       /\ LinkConnected

\* C10 witness: binary_tree has finished on a grid that is not square, with
\* one cell that had both neighbours linked north and another linked east.
C10_Witness ==
    /\ alg = "binary_tree" /\ pc = "done"
    /\ width # height /\ width >= 2 /\ height >= 2
    /\ \E a \in NodeIds, b \in NodeIds :
          /\ north(a) # {} /\ east(a) # {} /\ north(a) \subseteq links[a]
          /\ north(b) # {} /\ east(b) # {} /\ east(b) \subseteq links[b]

-----------------------------------------------------------------------------
(* A caller of the Walker: Walker::new on any node, then any sequence of   *)
(* loop_erased_step calls on any nodes (the tests of src/src/grid/walker.rs *)
(* 121-170 are such sequences).  frame.w is the walker, frame.steps the    *)
(* arguments of the calls made so far.                                     *)

MaxSteps == 4       \* loop_erased_step calls made on one walker

WalkerInit ==
    /\ nodes = MaxNodes
    /\ adjacencies = NoLinks(MaxNodes)
    /\ links = NoLinks(MaxNodes)
    /\ width = 0 /\ height = 0
    /\ alg = "walker"
    /\ pc = "walker"
    /\ \E start_node \in 0 .. (MaxNodes - 1) :
          frame = [w |-> Walker_new(start_node), steps |-> <<>>]
    /\ panicked = FALSE
    /\ call = NoCall
    /\ all_bidirectional = TRUE

LoopErasedStep ==
    /\ alg = "walker"
    /\ Len(frame.steps) < MaxSteps
    /\ \E next_cell \in NodeIds :
          frame' = [w |-> loop_erased_step(frame.w, next_cell),
                    steps |-> Append(frame.steps, next_cell)]
    /\ UNCHANGED <<links, panicked, pc>>
    /\ GenFrame

SpecWalker == WalkerInit /\ [][LoopErasedStep]_vars

\* C11: loop_erased_step(next) empties the stored path when next is the
\* start node; otherwise, when next first occurs at (0-based) index i of the
\* path, it keeps exactly the first i elements, so next itself is removed;
\* otherwise it appends next.  The start node never changes.  With start S,
\* the steps A, B, C, B leave the path [A].
C11_LoopErasedStep ==
    /\ [][(alg = "walker" /\ frame'.steps # frame.steps)
          => LET next == frame'.steps[Len(frame'.steps)]
                 start == frame.w.start_node
                 before == frame.w.path
                 after == frame'.w.path
             IN  /\ frame'.w.start_node = start
                 /\ next = start => after = <<>>
                 /\ next # start =>
                       \A i \in 0 .. (Len(before) - 1) :
                           (/\ before[i + 1] = next
                            /\ \A j \in 0 .. (i - 1) : before[j + 1] # next)
                           => after = [k \in 1 .. i |-> before[k]]
                 /\ (next # start /\ \A i \in 1 .. Len(before) : before[i] # next)
                       => after = before \o <<next>>]_vars
    /\ [](\A S \in NodeIds, A \in NodeIds, B \in NodeIds, C \in NodeIds :
            (/\ alg = "walker"
             /\ Cardinality({S, A, B, C}) = 4
             /\ frame.w.start_node = S
             /\ frame.steps = <<A, B, C, B>>)
            => frame.w.path = <<A>>)

\* C11 witness: the walker started at node 0 has made the steps 1, 2, 3, 2
\* and its path is [1].
C11_Witness ==
    /\ alg = "walker"
    /\ frame.w.start_node = 0
    /\ frame.steps = <<1, 2, 3, 2>>
    /\ frame.w.path = <<1>>

\* C12: after any sequence of loop_erased_step calls the total path, start
\* followed by the stored path, has no repeated node; the stored path never
\* holds the start node.
C12_TotalPathSimple ==
    alg = "walker"
    => LET tp == total_path(frame.w)
       IN  /\ \A i \in 1 .. Len(tp), j \in 1 .. Len(tp) : tp[i] = tp[j] => i = j
           /\ \A i \in 1 .. Len(frame.w.path) : frame.w.path[i] # frame.w.start_node

\* C12 witness: a walker that has stepped twice onto the same node, then onto
\* its start, then onto a node, holds a path of one node.
C12_Witness ==
    /\ alg = "walker"
    /\ Len(frame.steps) = 4
    /\ frame.steps[2] = frame.steps[1]
    /\ frame.steps[3] = frame.w.start_node
    /\ Len(frame.w.path) = 1

-----------------------------------------------------------------------------
(* Claims about the walk and the carving of a Walker, checked on the walks *)
(* wilson makes: a walker fresh from Walker::new, the pool's adjacency, and *)
(* the visited set as targets.                                             *)

\* C13: when loop_erased_walk_into_haystack returns (wilson goes on to carve
\* and pop), the last node of the total path is a target; if the start is
\* not a target no other node of the total path is one; if the start is a
\* target the path is empty, and from the call on no step is taken.
C13_WalkEndsInHaystack ==
    [][(alg = "wilson" /\ pc = "walk")
       => LET w == frame.path
              targets == frame.visited_set
              tp == <<w.start_node>> \o w.path
          IN  /\ pc' = "pop" =>
                    /\ tp[Len(tp)] \in targets
                    /\ w.start_node \notin targets =>
                          \A i \in 1 .. (Len(tp) - 1) : tp[i] \notin targets
                    /\ w.start_node \in targets => w.path = <<>>
              /\ w.start_node \in targets => (pc' = "pop" /\ w.path = <<>>)]_vars

\* C13 witness: a walk of at least two steps from a start that is no target
\* has reached a target and is about to return.
C13_Witness ==
    /\ alg = "wilson" /\ pc = "walk"
    /\ frame.path.start_node \notin frame.visited_set
    /\ Len(frame.path.path) >= 2
    /\ frame.path.path[Len(frame.path.path)] \in frame.visited_set
    /\ Cardinality(frame.visited_set) >= 2

\* The links a pool holds after each consecutive pair of the sequence tp has
\* been linked in both directions on top of the links lk.
LinkedAlong(lk, tp) ==
    [n \in DOMAIN lk |->
        lk[n] \cup {m \in DOMAIN lk :
                       \E i \in 1 .. (Len(tp) - 1) :
                           {tp[i], tp[i + 1]} = {n, m} /\ tp[i] # tp[i + 1]}]

\* C14: a step of the walk (random_loop_erased_step, and so the whole of
\* loop_erased_walk_into_haystack) changes neither the adjacency nor the
\* links of the pool; carve_path changes no adjacency and leaves the links
\* that were there plus exactly the consecutive pairs of the total path,
\* start included, each in both directions.
C14_CarveLinksThePath ==
    [][(alg = "wilson" /\ pc = "walk")
       => LET w == frame.path
              tp == <<w.start_node>> \o w.path
          IN  /\ adjacencies' = adjacencies
              /\ pc' = "walk" => links' = links
              /\ (tp[Len(tp)] \notin frame.visited_set) => links' = links
              /\ pc' = "pop" => links' = LinkedAlong(links, tp)]_vars

\* C14 witness: on four nodes, after the walk from node 2 was carved as the
\* link 2 - 3, the walk 1, 0, 2 has been carved on top of it, and one start
\* is left.
C14_Witness ==
    /\ alg = "wilson" /\ pc = "pop"
    /\ nodes = 4
    /\ frame.starts_list = <<0>>
    /\ links[1] = {0} /\ links[0] = {1, 2} /\ links[2] = {0, 3} /\ links[3] = {2}

-----------------------------------------------------------------------------
(* Distance, DijkstraPad, Distances: src/src/dijkstra.rs.  An Option is a   *)
(* sequence of at most one value; a Distance is <<"Finite", d>> or         *)
(* <<"Infinite">>.                                                         *)

MaxLinkNodes == 3   \* nodes of the pools with one-way links handed to DijkstraPad

None == <<>>
Some(x) == <<x>>
Finite(d) == <<"Finite", d>>
Infinite == <<"Infinite">>

\* Option::unwrap_or.
unwrap_or(o, default) == IF o = None THEN default ELSE o[1]

\* Distance::as_finite.
as_finite(d) == IF d = Infinite THEN None ELSE Some(d[2])

\* impl Add<usize> for Distance.
add(d, rhs) == IF d = Infinite THEN Infinite ELSE Finite(d[2] + rhs)

\* DijkstraPad::new: the payloads map_nodes gives the copy of the pool.
DijkstraPad_new(start_node) ==
    [n \in NodeIds |-> IF n = start_node THEN Some(Finite(0)) ELSE None]

\* The last map_nodes of perform.
Distances_of(payload) == [n \in DOMAIN payload |-> unwrap_or(payload[n], Infinite)]

\* Mutant: the neighbours of a cell are its adjacencies, linked or not.
unassigned_passages_by_adjacency(payload, cell) ==
    {c \in neighborhood_of(cell) : payload[c] = None}

\* Mutant: every passage of the cell is a neighbour, assigned or not.
unassigned_passages_unfiltered(payload, cell) == passages_of(cell)

\* perform, the neighbors of a frontier cell: its passages without a payload.
unassigned_passages(payload, cell) ==
    {c \in passages_of(cell) : payload[c] = None}

\* The pools: every link relation, one-way links and self-links included, on
\* up to MaxLinkNodes nodes each adjacent to every node.
DijkstraInit ==
    /\ \E n \in 1 .. MaxLinkNodes :
          /\ nodes = n
          /\ adjacencies = [i \in 0 .. (n - 1) |-> 0 .. (n - 1)]
          /\ links \in [0 .. (n - 1) -> SUBSET (0 .. (n - 1))]
    /\ width = 0 /\ height = 0
    /\ alg = "dijkstra"
    /\ pc = "start"
    /\ frame = NoFrame
    /\ panicked = FALSE
    /\ call = NoCall
    /\ all_bidirectional = FALSE

\* DijkstraPad::new(pool, start_node) and the first two statements of perform.
DijkstraNew ==
    /\ alg = "dijkstra" /\ pc = "start"
    /\ \E start_node \in NodeIds :
          frame' = [start_node |-> start_node,
                    payload |-> DijkstraPad_new(start_node),
                    frontier |-> {start_node}]
    /\ pc' = "while"
    /\ UNCHANGED <<links, panicked>>
    /\ GenFrame

\* The head of the while loop: an empty frontier ends perform with the
\* Distances; otherwise a new round over the frontier begins.
DijkstraWhile ==
    /\ alg = "dijkstra" /\ pc = "while"
    /\ IF frame.frontier = {}
       THEN /\ frame' = [start_node |-> frame.start_node,
                         distances |-> Distances_of(frame.payload)]
            /\ pc' = "done"
       ELSE /\ frame' = [start_node |-> frame.start_node,
                         payload |-> frame.payload,
                         frontier |-> frame.frontier,
                         new_frontier |-> {},
                         rest |-> frame.frontier]
            /\ pc' = "for"
    /\ UNCHANGED <<links, panicked>>
    /\ GenFrame

\* One iteration of "for cell in &frontier", in the order the HashSet gives
\* (any): frame.rest holds the cells still to come.
DijkstraCell ==
    /\ alg = "dijkstra" /\ pc = "for"
    /\ \E cell \in frame.rest :
          IF frame.payload[cell] = None
          THEN Panic(links)
          ELSE LET curr_distance == frame.payload[cell][1]
                   neighbors == unassigned_passages(frame.payload, cell)
               IN  /\ frame' = [frame EXCEPT
                         !.payload = [n \in NodeIds |->
                                         IF n \in neighbors
                                         THEN Some(add(curr_distance, 1))
                                         ELSE @[n]],
                         !.new_frontier = @ \cup neighbors,
                         !.rest = @ \ {cell}]
                   /\ UNCHANGED <<links, panicked, pc>>
    /\ GenFrame

\* The end of the for loop: frontier = new_frontier.
DijkstraRound ==
    /\ alg = "dijkstra" /\ pc = "for"
    /\ frame.rest = {}
    /\ frame' = [start_node |-> frame.start_node,
                 payload |-> frame.payload,
                 frontier |-> frame.new_frontier]
    /\ pc' = "while"
    /\ UNCHANGED <<links, panicked>>
    /\ GenFrame

DijkstraNext == DijkstraNew \/ DijkstraWhile \/ DijkstraCell \/ DijkstraRound

SpecDijkstra == DijkstraInit /\ [][DijkstraNext]_vars

\* The ids reached from R by at most k steps along f.
RECURSIVE WithinSteps(_, _, _)
WithinSteps(f, R, k) ==
    IF k = 0 THEN R ELSE WithinSteps(f, R \cup UNION {f[a] : a \in R}, k - 1)

\* The length of a shortest path from s to v along f, for v reachable from s.
PathLength(f, s, v) ==
    CHOOSE k \in 0 .. Cardinality(DOMAIN f) :
        /\ v \in WithinSteps(f, {s}, k)
        /\ \A j \in 0 .. (k - 1) : v \notin WithinSteps(f, {s}, j)

\* C15: DijkstraPad::new(pool, s).perform() gives s Finite(0), every other
\* node v with a path from s along link entries Finite(d), d the length of
\* the shortest such path, and exactly the nodes without such a path
\* Infinite; perform does not panic.
C15_DijkstraDistances ==
    (alg = "dijkstra")
    => /\ ~panicked
       /\ pc = "done" =>
             LET s == frame.start_node
                 reached == ReachIn(links, NodeIds, {s})
             IN  /\ frame.distances[s] = Finite(0)
                 /\ \A v \in NodeIds :
                       /\ v \in reached
                             => frame.distances[v] = Finite(PathLength(links, s, v))
                       /\ frame.distances[v] = Infinite <=> v \notin reached

\* C15 witness: perform has ended on three nodes with one Finite(1), one
\* Finite(2) reached by a one-way link, and an adjacency that is no link.
C15_Witness ==
    /\ alg = "dijkstra" /\ pc = "done"
    /\ nodes = 3
    /\ \E a \in NodeIds, b \in NodeIds :
          /\ frame.distances[a] = Finite(1)
          /\ frame.distances[b] = Finite(2)
          /\ b \in links[a] /\ a \notin links[b]
          /\ b \notin links[frame.start_node]
          /\ b \in adjacencies[frame.start_node]

-----------------------------------------------------------------------------
(* Pool::furthest_pair: src/src/pool.rs 186-198, with get_arbitrary_node_id *)
(* (114-117) and DijkstraPad::new(..).perform() as a function of the pool.  *)

Min(S) == CHOOSE a \in S : \A b \in S : a <= b

\* One round of perform's while loop over the cells in rest, taken in
\* ascending order (SpecDijkstra takes them in every order).
RECURSIVE perform_round(_, _, _)
perform_round(payload, rest, new_frontier) ==
    IF rest = {}
    THEN [payload |-> payload, new_frontier |-> new_frontier]
    ELSE LET cell == Min(rest)
             curr_distance == payload[cell][1]
             neighbors == unassigned_passages(payload, cell)
         IN  perform_round([n \in NodeIds |->
                               IF n \in neighbors
                               THEN Some(add(curr_distance, 1))
                               ELSE payload[n]],
                           rest \ {cell},
                           new_frontier \cup neighbors)

RECURSIVE perform_while(_, _)
perform_while(payload, frontier) ==
    IF frontier = {}
    THEN Distances_of(payload)
    ELSE LET r == perform_round(payload, frontier, {})
         IN  perform_while(r.payload, r.new_frontier)

\* DijkstraPad::new(self, start_node).perform(), the payloads of its result.
perform(start_node) == perform_while(DijkstraPad_new(start_node), {start_node})

\* Iterator::max_by_key over the nodes in id order with the key of
\* furthest_pair: of several maxima the last one is returned, of no node None.
max_by_key(distances) ==
    LET key(n) == unwrap_or(as_finite(distances[n]), 0)
        ids == DOMAIN distances
    IN  IF ids = {}
        THEN None
        ELSE Some(CHOOSE n \in ids :
                     \A m \in ids : key(m) < key(n) \/ (key(m) = key(n) /\ m <= n))

\* Mutant: the pair is the arbitrary node and the node furthest from it.
furthest_pair_from_arbitrary ==
    IF nodes = 0
    THEN [panicked |-> TRUE]
    ELSE [panicked |-> FALSE,
          value |-> Some(<<0, max_by_key(perform(0))[1]>>)]

\* Pool::furthest_pair.  get_arbitrary_node_id is self.nodes[0].id, an index
\* out of bounds on an empty pool.
furthest_pair ==
    IF nodes = 0
    THEN [panicked |-> TRUE]
    ELSE LET arbitrary_id == 0
             furthest_from_arbitrary == max_by_key(perform(arbitrary_id))
         IN  IF furthest_from_arbitrary = None
             THEN [panicked |-> FALSE, value |-> None]
             ELSE LET furthest_from_furthest ==
                          max_by_key(perform(furthest_from_arbitrary[1]))
                  IN  IF furthest_from_furthest = None
                      THEN [panicked |-> FALSE, value |-> None]
                      ELSE [panicked |-> FALSE,
                            value |-> Some(<<furthest_from_arbitrary[1],
                                             furthest_from_furthest[1]>>)]

\* The pools: up to MaxNodes nodes each adjacent to every node, with every
\* symmetric link relation (self-links included).
FurthestInit ==
    /\ \E n \in 0 .. MaxNodes : \E E \in SUBSET PossibleEdges(n) :
          /\ nodes = n
          /\ adjacencies = [i \in 0 .. (n - 1) |-> 0 .. (n - 1)]
          /\ links = AdjacencyOf(n, E)
    /\ width = 0 /\ height = 0
    /\ alg = "furthest_pair"
    /\ pc = "start"
    /\ frame = NoFrame
    /\ panicked = FALSE
    /\ call = NoCall
    /\ all_bidirectional = TRUE

FurthestPair ==
    /\ alg = "furthest_pair" /\ pc = "start"
    /\ LET r == furthest_pair
       IN  IF r.panicked
           THEN Panic(links)
           ELSE /\ frame' = [result |-> r.value]
                /\ pc' = "done"
                /\ UNCHANGED <<links, panicked>>
    /\ GenFrame

SpecFurthest == FurthestInit /\ [][FurthestPair]_vars

\* The greatest shortest-path length over all pairs of nodes (link graph
\* connected).
Diameter ==
    LET lengths == {PathLength(links, a, b) : a \in NodeIds, b \in NodeIds}
    IN  CHOOSE d \in lengths : \A e \in lengths : e <= d

\* C16: on a non-empty pool whose link graph is a tree spanning all nodes
\* (symmetric links), furthest_pair returns Some((X, Y)) with the distance
\* from X to Y in the link graph equal to the diameter of the tree.
C16_FurthestPairOnTree ==
    (alg = "furthest_pair" /\ pc # "start" /\ nodes >= 1 /\ LinkSpanningTree)
    => /\ ~panicked
       /\ Len(frame.result) = 1
       /\ LET X == frame.result[1][1]
              Y == frame.result[1][2]
          IN  /\ X \in NodeIds /\ Y \in NodeIds
              /\ PathLength(links, X, Y) = Diameter

\* C16 witness: furthest_pair has returned on a tree of four nodes with
\* diameter 3 in which node 0, the arbitrary node, is no end of the longest
\* path.
C16_Witness ==
    /\ alg = "furthest_pair" /\ pc = "done"
    /\ nodes = 4 /\ LinkSpanningTree
    /\ Diameter = 3
    /\ Cardinality(links[0]) = 2
    /\ 0 \notin {frame.result[1][1], frame.result[1][2]}

-----------------------------------------------------------------------------
(* Pool::is_adjacently_connected: src/src/pool.rs 209-220.  The PartitionVec *)
(* is the set of its sets; partition_vec![(); n] has n singletons, union    *)
(* merges the sets of its two arguments, amount_of_sets counts the sets.    *)

MaxConnNodes == 3   \* nodes of the pools whose connectivity is asked

partition_vec(n) == {{i} : i \in 0 .. (n - 1)}

union(partitions, a, b) ==
    LET merged == UNION {s \in partitions : a \in s \/ b \in s}
    IN  {s \in partitions : a \notin s /\ b \notin s} \cup {merged}

amount_of_sets(partitions) == Cardinality(partitions)

\* The inner loop: union(node, neighbor) for each adjacency of the node.
RECURSIVE union_neighbors(_, _, _)
union_neighbors(partitions, node, neighbors) ==
    IF neighbors = {}
    THEN partitions
    ELSE LET neighbor == Min(neighbors)
         IN  union_neighbors(union(partitions, node, neighbor), node,
                             neighbors \ {neighbor})

\* The outer loop over the n nodes with adjacency adj, from index i on.
RECURSIVE union_nodes(_, _, _, _)
union_nodes(partitions, n, adj, i) ==
    IF i >= n
    THEN partitions
    ELSE union_nodes(union_neighbors(partitions, i, adj[i]), n, adj, i + 1)

\* Mutant: a search from the first node along the adjacency entries as they
\* point, with an empty pool connected.
is_adjacently_connected_by_search(n, adj) ==
    IF n = 0 THEN TRUE ELSE ReachIn(adj, 0 .. (n - 1), {0}) = 0 .. (n - 1)

\* Pool::is_adjacently_connected on the pool of n nodes with adjacency adj.
is_adjacently_connected(n, adj) ==
    LET nodes_partitions == union_nodes(partition_vec(n), n, adj, 0)
    IN  amount_of_sets(nodes_partitions) = 1

\* A caller that allocates up to MaxConnNodes nodes, declares adjacencies
\* with make_adjacent and asks is_adjacently_connected at any time.
ConnectivityInit ==
    /\ \E n \in 0 .. MaxConnNodes :
          /\ nodes = n
          /\ adjacencies = NoLinks(n)
          /\ links = NoLinks(n)
    /\ panicked = FALSE
    /\ call = NoCall
    /\ all_bidirectional = TRUE
    /\ GenIdle

IsAdjacentlyConnected ==
    /\ ~panicked
    /\ call' = [op |-> "is_adjacently_connected",
                result |-> is_adjacently_connected(nodes, adjacencies)]
    /\ UNCHANGED <<nodes, adjacencies, links, panicked, all_bidirectional,
                   width, height, alg, pc, frame>>

ConnectivityNext == MakeAdjacent \/ IsAdjacentlyConnected

SpecConnectivity == ConnectivityInit /\ [][ConnectivityNext]_vars

\* The adjacency entries read without their direction.
UndirectedAdjacency ==
    [a \in NodeIds |-> adjacencies[a] \cup {b \in NodeIds : a \in adjacencies[b]}]

\* The adjacency that make_adjacent(a, b, true) calls on the pairs E leave.
AdjacencyIs(E) == adjacencies = [i \in NodeIds |-> {j \in NodeIds : {i, j} \in E}]

\* C17: on a pool with at least one node is_adjacently_connected returns
\* true iff all nodes lie in one component of the undirected graph of the
\* adjacency entries; with three nodes it returns false with no adjacency,
\* false with the nodes 0 and 1 made adjacent, and true with 0 and 2
\* made adjacent as well.
C17_ConnectedIffOneComponent ==
    (call.op = "is_adjacently_connected" /\ nodes >= 1)
    => /\ call.result <=> ConnectedOn(UndirectedAdjacency, NodeIds)
       /\ (nodes = 3 /\ AdjacencyIs({})) => ~call.result
       /\ (nodes = 3 /\ AdjacencyIs({{0, 1}})) => ~call.result
       /\ (nodes = 3 /\ AdjacencyIs({{0, 1}, {0, 2}})) => call.result

\* C17 witness: the check has answered true on three nodes with the
\* adjacencies 0 - 1 and 0 - 2.
C17_Witness ==
    /\ call.op = "is_adjacently_connected"
    /\ nodes = 3 /\ AdjacencyIs({{0, 1}, {0, 2}})
    /\ call.result

\* C18: is_adjacently_connected answers true on a pool with 0 nodes and on
\* a pool with 1 node, false on two nodes with no adjacency, and true on a
\* pool of just the two nodes a and b after make_adjacent(a, b).
C18_SmallPools ==
    (call.op = "is_adjacently_connected")
    => /\ nodes = 0 => call.result
       /\ nodes = 1 => call.result
       /\ (nodes = 2 /\ AdjacencyIs({})) => ~call.result
       /\ (nodes = 2 /\ (1 \in adjacencies[0] \/ 0 \in adjacencies[1])) => call.result

-----------------------------------------------------------------------------
(* MaskedGrid::new: src/src/masked_grid.rs 75-125.  A mask is the set of    *)
(* positions <<row, col>> it holds true on.                                 *)

MaxMazeDim == 2     \* width and height of the grids the Maze constructors build
MaxBranch == 2      \* starting_branch_count of the polar grids
MaxRings == 2       \* ring_count of the polar grids

Positions(w, h) == {<<row, col>> : row \in 0 .. (h - 1), col \in 0 .. (w - 1)}

\* cell_grid: new_node is called row by row, column by column, on the
\* positions of the mask, so a position's id is the number of mask
\* positions before it.
cell_grid(w, h, mask) ==
    [p \in mask \cap Positions(w, h) |->
        Cardinality({q \in mask \cap Positions(w, h) :
                        q[1] < p[1] \/ (q[1] = p[1] /\ q[2] < p[2])})]

\* The pool MaskedGrid::new has built when it reaches its assert!: one node
\* per mask position, adjacent (both ways) to the mask positions left,
\* right, above and below it.
MaskedGrid_pool(w, h, mask) ==
    LET grid == cell_grid(w, h, mask)
        n == Cardinality(DOMAIN grid)
        around(p) == {<<p[1], p[2] - 1>>, <<p[1], p[2] + 1>>,
                      <<p[1] - 1, p[2]>>, <<p[1] + 1, p[2]>>} \cap DOMAIN grid
    IN  [nodes |-> n,
         adjacencies |-> [i \in 0 .. (n - 1) |->
                             LET p == CHOOSE q \in DOMAIN grid : grid[q] = i
                             IN  {grid[q] : q \in around(p)}],
         links |-> NoLinks(n)]

\* MaskedGrid::new: the pool, and the panic of
\* assert!(pool.is_adjacently_connected(), ..) when the answer is false.
MaskedGrid_new(w, h, mask) ==
    LET pool == MaskedGrid_pool(w, h, mask)
    IN  [pool |-> pool,
         connected |-> is_adjacently_connected(pool.nodes, pool.adjacencies),
         panicked |-> ~is_adjacently_connected(pool.nodes, pool.adjacencies)]

-----------------------------------------------------------------------------
(* RingProfile and PolarGrid::new: src/src/polar_grid.rs 9-11, 47-168,      *)
(* 194-266.  A RingPosition is a record [ring, column].                     *)

\* circumference((r + 1) as f64) / cell_count as f64 > 2.0, that is
\* cell_count < pi * (r + 1); pi to six digits decides it for every ring
\* and cell count met here.
circumference_over(r, cell_count) == cell_count * 1000000 < 3141593 * (r + 1)

RECURSIVE ring_cell_count_from(_, _, _)
ring_cell_count_from(cell_count, r, ring) ==
    IF r >= ring
    THEN cell_count
    ELSE ring_cell_count_from(IF circumference_over(r, cell_count)
                              THEN cell_count * 2 ELSE cell_count,
                              r + 1, ring)

\* RingProfile::ring_cell_count; profile is the starting branch count.
ring_cell_count(profile, ring) ==
    IF ring = 0 THEN 1
    ELSE IF ring = 1 THEN profile
    ELSE ring_cell_count_from(profile, 1, ring)

\* RingProfile::any_above: the positions above pos, in order.
any_above(profile, pos) ==
    LET ring_width == ring_cell_count(profile, pos.ring)
        ring_width_above == ring_cell_count(profile, pos.ring + 1)
    IN  IF pos.ring = 0
        THEN [column \in 1 .. ring_width_above |-> [ring |-> 1, column |-> column - 1]]
        ELSE IF ring_width_above > ring_width
        THEN <<[ring |-> pos.ring + 1, column |-> pos.column * 2],
               [ring |-> pos.ring + 1, column |-> pos.column * 2 + 1]>>
        ELSE <<[ring |-> pos.ring + 1, column |-> pos.column]>>

\* A mutant of take_step whose Down halves the column above ring 1 whatever
\* the widths of the rings.
take_step_halving(profile, pos, step) ==
    LET ring_width == ring_cell_count(profile, pos.ring)
        ring_width_above == ring_cell_count(profile, pos.ring + 1)
    IN  IF pos.ring = 0 THEN None
        ELSE CASE step = "UpSplitLeft" ->
                    IF ring_width_above > ring_width
                    THEN Some([ring |-> pos.ring + 1, column |-> pos.column * 2])
                    ELSE None
               [] step = "UpSplitRight" ->
                    IF ring_width_above > ring_width
                    THEN Some([ring |-> pos.ring + 1, column |-> pos.column * 2 + 1])
                    ELSE None
               [] step = "UpSingle" ->
                    IF ring_width = ring_width_above
                    THEN Some([ring |-> pos.ring + 1, column |-> pos.column])
                    ELSE None
               [] step = "CW" ->
                    IF pos.column + 1 = ring_width
                    THEN Some([ring |-> pos.ring, column |-> 0])
                    ELSE Some([ring |-> pos.ring, column |-> pos.column + 1])
               [] step = "CCW" ->
                    IF pos.column = 0
                    THEN Some([ring |-> pos.ring, column |-> ring_width - 1])
                    ELSE Some([ring |-> pos.ring, column |-> pos.column - 1])
               [] step = "Down" ->
                    IF pos.ring = 1
                    THEN Some([ring |-> 0, column |-> 0])
                    ELSE Some([ring |-> pos.ring - 1, column |-> pos.column \div 2])

\* RingProfile::take_step.
take_step(profile, pos, step) ==
    LET ring_width == ring_cell_count(profile, pos.ring)
        ring_width_above == ring_cell_count(profile, pos.ring + 1)
    IN  IF pos.ring = 0 THEN None
        ELSE CASE step = "UpSplitLeft" ->
                    IF ring_width_above > ring_width
                    THEN Some([ring |-> pos.ring + 1, column |-> pos.column * 2])
                    ELSE None
               [] step = "UpSplitRight" ->
                    IF ring_width_above > ring_width
                    THEN Some([ring |-> pos.ring + 1, column |-> pos.column * 2 + 1])
                    ELSE None
               [] step = "UpSingle" ->
                    IF ring_width = ring_width_above
                    THEN Some([ring |-> pos.ring + 1, column |-> pos.column])
                    ELSE None
               [] step = "CW" ->
                    IF pos.column + 1 = ring_width
                    THEN Some([ring |-> pos.ring, column |-> 0])
                    ELSE Some([ring |-> pos.ring, column |-> pos.column + 1])
               [] step = "CCW" ->
                    IF pos.column = 0
                    THEN Some([ring |-> pos.ring, column |-> ring_width - 1])
                    ELSE Some([ring |-> pos.ring, column |-> pos.column - 1])
               [] step = "Down" ->
                    IF pos.ring = 1
                    THEN Some([ring |-> 0, column |-> 0])
                    ELSE IF ring_cell_count(profile, pos.ring - 1) < ring_width
                    THEN Some([ring |-> pos.ring - 1, column |-> pos.column \div 2])
                    ELSE Some([ring |-> pos.ring - 1, column |-> pos.column])

RECURSIVE rings_offset(_, _)
rings_offset(profile, ring) ==
    IF ring = 0 THEN 0
    ELSE rings_offset(profile, ring - 1) + ring_cell_count(profile, ring - 1)

\* grid[pos], the id in rings[pos.ring][pos.column]: new_node is called ring
\* by ring, column by column.
rings_at(profile, pos) == rings_offset(profile, pos.ring) + pos.column

\* PolarGrid::new.  RingProfile::new panics on a branch count under 2 before
\* any node exists; assert!(ring_count > 1) panics after the nodes of the
\* rings were allocated.  Every make_adjacent is bidirectional.
PolarGrid_new(starting_branch_count, ring_count) ==
    IF starting_branch_count <= 1
    THEN [panicked |-> TRUE, nodes |-> 0, adjacencies |-> <<>>, links |-> <<>>]
    ELSE
    LET profile == starting_branch_count
        n == rings_offset(profile, ring_count)
        columns(ring) == 0 .. (ring_cell_count(profile, ring) - 1)
        here(ring, column) == [ring |-> ring, column |-> column]
        center == {{rings_at(profile, here(0, 0)), rings_at(profile, here(1, column))} :
                      column \in columns(1)}
        around(ring) ==
            {{rings_at(profile, here(ring, column)),
              rings_at(profile, take_step(profile, here(ring, column), "CW")[1])} :
                 column \in columns(ring)}
        above(ring) ==
            UNION {{{rings_at(profile, here(ring, column)),
                     rings_at(profile, any_above(profile, here(ring, column))[k])} :
                        k \in 1 .. Len(any_above(profile, here(ring, column)))} :
                      column \in columns(ring)}
        E == center
             \cup UNION {around(ring) \cup above(ring) : ring \in 1 .. (ring_count - 2)}
             \cup around(ring_count - 1)
    IN  IF ring_count <= 1
        THEN [panicked |-> TRUE, nodes |-> n, adjacencies |-> NoLinks(n),
              links |-> NoLinks(n)]
        ELSE [panicked |-> FALSE, nodes |-> n, adjacencies |-> AdjacencyOf(n, E),
              links |-> NoLinks(n)]

-----------------------------------------------------------------------------
(* From grid construction to generation: the Maze constructors of          *)
(* src/src/maze.rs 29-58 (a MaskedGrid or a PolarGrid, then aldous_broder   *)
(* or hunt_and_kill, then furthest_pair().unwrap()) and FlatSquareGrid::new *)
(* followed by one of its algorithms.  call records the grid that was      *)
(* built and the answer of is_adjacently_connected if it was asked.        *)

MazeAlgorithms == {"aldous_broder", "hunt_and_kill"}

MazeInit ==
    /\ nodes = Pool_new.nodes
    /\ adjacencies = Pool_new.adjacencies
    /\ links = Pool_new.links
    /\ width = 0 /\ height = 0
    /\ alg = "none"
    /\ pc = "construct"
    /\ frame = NoFrame
    /\ panicked = FALSE
    /\ call = NoCall
    /\ all_bidirectional = TRUE

\* The constructor has returned: the algorithm is entered.
EnterAlgorithm(algo) == alg' = algo /\ pc' = "start" /\ panicked' = FALSE

\* The constructor has panicked.
ConstructorPanic == alg' = "none" /\ pc' = "panicked" /\ panicked' = TRUE

\* Maze::new_unmasked_cartesian and Maze::new_masked_cartesian up to the
\* algorithm: MaskedGrid::new with its assert!(pool.is_adjacently_connected()).
MaskedGridNew ==
    /\ pc = "construct"
    /\ \E w \in 0 .. MaxMazeDim, h \in 0 .. MaxMazeDim :
       \E mask \in SUBSET Positions(w, h), algo \in MazeAlgorithms :
          LET g == MaskedGrid_new(w, h, mask)
          IN  /\ nodes' = g.pool.nodes
              /\ adjacencies' = g.pool.adjacencies
              /\ links' = g.pool.links
              /\ width' = w /\ height' = h
              /\ call' = [op |-> "is_adjacently_connected",
                          result |-> g.connected,
                          grid |-> "MaskedGrid", mask |-> mask]
              /\ IF g.panicked THEN ConstructorPanic ELSE EnterAlgorithm(algo)
    /\ UNCHANGED <<frame, all_bidirectional>>

\* Maze::new_unmasked_radial up to the algorithm: PolarGrid::new.
PolarGridNew ==
    /\ pc = "construct"
    /\ \E starting_branch_count \in 1 .. MaxBranch, ring_count \in 0 .. MaxRings :
       \E algo \in MazeAlgorithms :
          LET grid == PolarGrid_new(starting_branch_count, ring_count)
          IN  /\ nodes' = grid.nodes
              /\ adjacencies' = grid.adjacencies
              /\ links' = grid.links
              /\ call' = [op |-> "none", grid |-> "PolarGrid"]
              /\ IF grid.panicked THEN ConstructorPanic ELSE EnterAlgorithm(algo)
    /\ UNCHANGED <<frame, all_bidirectional, width, height>>

\* FlatSquareGrid::new (src/src/grid/mod.rs 108-167), then one of the six
\* algorithms of FlatSquareGrid.
FlatSquareGridNew ==
    /\ pc = "construct"
    /\ \E w \in 1 .. MaxMazeDim, h \in 1 .. MaxMazeDim, algo \in Algorithms :
          /\ nodes' = w * h
          /\ adjacencies' = stitch(w, h)
          /\ links' = NoLinks(w * h)
          /\ width' = w /\ height' = h
          /\ call' = [op |-> "none", grid |-> "FlatSquareGrid"]
          /\ EnterAlgorithm(algo)
    /\ UNCHANGED <<frame, all_bidirectional>>

\* The end of a Maze constructor: furthest_pair().unwrap().
MazeFurthestPair ==
    /\ pc = "done"
    /\ call.grid \in {"MaskedGrid", "PolarGrid"}
    /\ LET r == furthest_pair
       IN  IF r.panicked \/ r.value = None
           THEN Panic(links)
           ELSE /\ frame' = [start |-> r.value[1][1], end |-> r.value[1][2]]
                /\ pc' = "maze"
                /\ UNCHANGED <<links, panicked>>
    /\ GenFrame

MazeNext ==
    \/ MaskedGridNew
    \/ PolarGridNew
    \/ FlatSquareGridNew
    \/ GenNext
    \/ MazeFurthestPair

SpecMaze == MazeInit /\ [][MazeNext]_vars

\* C19: whichever constructor built the grid (MaskedGrid::new,
\* FlatSquareGrid::new, PolarGrid::new), a generation algorithm runs, and a
\* link is carved, only on a pool on which is_adjacently_connected was
\* asked and answered true; a false answer aborts.
C19_CheckedBeforeGeneration ==
    /\ (alg \in Algorithms \/ \E n \in NodeIds : links[n] # {})
          => (call.op = "is_adjacently_connected" /\ call.result)
    /\ (call.op = "is_adjacently_connected" /\ ~call.result) => panicked

-----------------------------------------------------------------------------
(* MaskedGrid::read_maze and validate_news_grid:                           *)
(* src/src/masked_grid.rs 444-631.  The input is a sequence of bytes; a    *)
(* news grid is a function from positions <<row, col>> to non-zero bytes.   *)

MaxCells == 3       \* width * height of the grids the byte streams announce

\* The cell bytes tried: 0 (no cell), the fifteen combinations of the four
\* direction bits, and 16, a non-zero byte with none of them.
CellBytes == 0 .. 16

\* u32::to_be_bytes and u32::from_be_bytes.
to_be_bytes(x) ==
    <<(x \div 16777216) % 256, (x \div 65536) % 256, (x \div 256) % 256, x % 256>>
from_be_bytes(bytes) ==
    bytes[1] * 16777216 + bytes[2] * 65536 + bytes[3] * 256 + bytes[4]

north_bit(b) == (b \div 8) % 2 = 1
east_bit(b) == (b \div 4) % 2 = 1
west_bit(b) == (b \div 2) % 2 = 1
south_bit(b) == b % 2 = 1

\* Ok(()) of validate_news_grid.
NewsOk == [kind |-> "Ok"]

\* A mutant of out_of_bounds that tests the row only.
out_of_bounds_rows_only(pos, flag) == pos[1] = 0 /\ flag = "North"

\* The tests `row == 0` of the north check and `col == 0` of the west check;
\* the east and south checks have none.
out_of_bounds(pos, flag) ==
    (pos[1] = 0 /\ flag = "North") \/ (pos[2] = 0 /\ flag = "West")

\* A mutant of reciprocal that looks for the same direction in the
\* neighbour.
reciprocal_same_direction(flag, c) ==
    CASE flag = "North" -> north_bit(c)
      [] flag = "East" -> east_bit(c)
      [] flag = "West" -> west_bit(c)
      [] flag = "South" -> south_bit(c)

\* The bit looked for in the neighbour's byte: south for a north link, west
\* for an east link, east for a west link, north for a south link.
reciprocal(flag, c) ==
    CASE flag = "North" -> south_bit(c)
      [] flag = "East" -> west_bit(c)
      [] flag = "West" -> east_bit(c)
      [] flag = "South" -> north_bit(c)

\* The checks validate_news_grid makes on one cell, in its order north,
\* east, west, south: the first error, or Ok.
validate_cell(news_grid, pos) ==
    LET row == pos[1]
        col == pos[2]
        b == news_grid[pos]
        to(flag) == CASE flag = "North" -> <<row - 1, col>>
                      [] flag = "East" -> <<row, col + 1>>
                      [] flag = "West" -> <<row, col - 1>>
                      [] flag = "South" -> <<row + 1, col>>
        check(flag) ==
            IF out_of_bounds(pos, flag)
            THEN [kind |-> "ConnectedOutOfBounds", cell |-> pos, direction |-> flag]
            ELSE IF to(flag) \notin DOMAIN news_grid
            THEN [kind |-> "ConnectedOutOfMask", linked |-> pos,
                  missing |-> to(flag), direction |-> flag]
            ELSE IF ~reciprocal(flag, news_grid[to(flag)])
            THEN [kind |-> "UnrequitedConnection", linked |-> pos,
                  unlinked |-> to(flag), direction |-> flag]
            ELSE NewsOk
    IN  IF north_bit(b) /\ check("North") # NewsOk THEN check("North")
        ELSE IF east_bit(b) /\ check("East") # NewsOk THEN check("East")
        ELSE IF west_bit(b) /\ check("West") # NewsOk THEN check("West")
        ELSE IF south_bit(b) /\ check("South") # NewsOk THEN check("South")
        ELSE NewsOk

\* validate_news_grid: the cells are visited in the order of the HashMap
\* (any) and the first error met is returned, so every failing cell's first
\* error is a possible result; Ok if no cell fails.
validate_news_grid(news_grid) ==
    LET errors == {validate_cell(news_grid, pos) : pos \in DOMAIN news_grid} \ {NewsOk}
    IN  IF errors = {} THEN {NewsOk} ELSE errors

\* The link_cells calls of read_maze's last loop for one cell.
news_links(grid, news_grid, pos) ==
    LET row == pos[1]
        col == pos[2]
        b == news_grid[pos]
    IN  (IF north_bit(b) THEN {<<grid[pos], grid[<<row - 1, col>>]>>} ELSE {})
        \cup (IF east_bit(b) THEN {<<grid[pos], grid[<<row, col + 1>>]>>} ELSE {})
        \cup (IF west_bit(b) THEN {<<grid[pos], grid[<<row, col - 1>>]>>} ELSE {})
        \cup (IF south_bit(b) THEN {<<grid[pos], grid[<<row + 1, col>>]>>} ELSE {})

RECURSIVE link_news(_, _, _)
link_news(lk, adj, calls) ==
    IF calls = {}
    THEN [links |-> lk, panicked |-> FALSE]
    ELSE LET c == CHOOSE c \in calls : TRUE
             r == link_cells(lk, adj, c[1], c[2], TRUE)
         IN  IF r.panicked THEN r ELSE link_news(r.links, adj, calls \ {c})

EmptyPool == [nodes |-> 0, adjacencies |-> <<>>, links |-> <<>>]

\* The values of Result<MaskedGrid, GridReadError>, and the outcome of a call
\* that does not return.
Ok == [is |-> "Ok", error |-> NewsOk]
Err(e) == [is |-> "Err", error |-> e]
Aborted == [is |-> "panic", error |-> NewsOk]

\* MaskedGrid::read_maze: the set of its possible outcomes on the input,
\* each a record [result, panicked, width, height, mask, pool]; mask is the
\* set of positions of the grid read (the keys of news_grid).
read_maze(input) ==
    LET fail(e) == {[result |-> Err(e), panicked |-> FALSE,
                     width |-> 0, height |-> 0, mask |-> {}, pool |-> EmptyPool]}
    IN  IF Len(input) < 24
        THEN fail([kind |-> "IoError"])
        ELSE
        LET w == from_be_bytes(SubSeq(input, 1, 4))
            h == from_be_bytes(SubSeq(input, 5, 8))
            node_bytes == SubSeq(input, 25, Len(input))
            byte_at(pos) == node_bytes[pos[1] * w + pos[2] + 1]
        IN  IF Len(node_bytes) < w * h
            THEN fail([kind |-> "NotEnoughBytes"])
            ELSE IF Len(node_bytes) > w * h
            THEN fail([kind |-> "TooManyBytes"])
            ELSE
            LET mask == {pos \in Positions(w, h) : byte_at(pos) # 0}
                news_grid == [pos \in mask |-> byte_at(pos)]
                g == MaskedGrid_new(w, h, mask)
                grid == cell_grid(w, h, mask)
                linked == link_news(g.pool.links, g.pool.adjacencies,
                                    UNION {news_links(grid, news_grid, pos) : pos \in mask})
                abort(p) == [result |-> Aborted, panicked |-> TRUE,
                             width |-> w, height |-> h, mask |-> mask, pool |-> p]
            IN  {IF v # NewsOk
                 THEN [result |-> Err([kind |-> "InvalidNewsGrid", error |-> v]),
                       panicked |-> FALSE, width |-> 0, height |-> 0,
                       mask |-> {}, pool |-> EmptyPool]
                 ELSE IF g.panicked
                 THEN abort(g.pool)
                 ELSE IF linked.panicked
                 THEN abort([g.pool EXCEPT !.links = linked.links])
                 ELSE [result |-> Ok, panicked |-> FALSE, width |-> w, height |-> h,
                       mask |-> mask,
                       pool |-> [g.pool EXCEPT !.links = linked.links]] :
                    v \in validate_news_grid(news_grid)}

\* The byte streams: a header announcing a width and a height with at most
\* MaxCells cells (the four coordinates of start and end are zero), then at
\* most that many cell bytes and at most one byte more, the whole cut at
\* any length.
ReadInputsOf(w, h) ==
    LET header == to_be_bytes(w) \o to_be_bytes(h)
                  \o to_be_bytes(0) \o to_be_bytes(0)
                  \o to_be_bytes(0) \o to_be_bytes(0)
    IN  {SubSeq(header, 1, len) : len \in 0 .. 23}
        \cup UNION {{header \o cells : cells \in [1 .. k -> CellBytes]} :
                       k \in 0 .. (w * h)}
        \cup {header \o cells \o <<extra>> :
                 cells \in [1 .. (w * h) -> CellBytes], extra \in {0, 16}}

ReadDims == {d \in (0 .. MaxCells) \X (0 .. MaxCells) : d[1] * d[2] <= MaxCells}

ReadInit ==
    /\ nodes = Pool_new.nodes
    /\ adjacencies = Pool_new.adjacencies
    /\ links = Pool_new.links
    /\ width = 0 /\ height = 0
    /\ alg = "read_maze"
    /\ pc = "start"
    /\ \E d \in ReadDims : \E input \in ReadInputsOf(d[1], d[2]) :
          frame = [input |-> input]
    /\ panicked = FALSE
    /\ call = NoCall
    /\ all_bidirectional = TRUE

ReadMaze ==
    /\ alg = "read_maze" /\ pc = "start"
    /\ \E r \in read_maze(frame.input) :
          /\ nodes' = r.pool.nodes
          /\ adjacencies' = r.pool.adjacencies
          /\ links' = r.pool.links
          /\ width' = r.width /\ height' = r.height
          /\ panicked' = r.panicked
          /\ pc' = IF r.panicked THEN "panicked" ELSE "done"
          /\ frame' = [input |-> frame.input, result |-> r.result]
    /\ UNCHANGED <<alg, call, all_bidirectional>>

SpecReadMaze == ReadInit /\ [][ReadMaze]_vars

\* The cell bytes of a full-length input, and the positions of the non-zero
\* ones.
InputWidth == from_be_bytes(SubSeq(frame.input, 1, 4))
InputHeight == from_be_bytes(SubSeq(frame.input, 5, 8))
InputCells == Len(frame.input) - 24

\* C20: read_maze panics on no byte stream: a stream of the wrong length
\* gives Err(NotEnoughBytes) or Err(TooManyBytes), and every other stream
\* either Ok or a typed Err.
C20_ReadMazeNeverPanics ==
    (alg = "read_maze" /\ pc # "start")
    => /\ ~panicked
       /\ frame.result.is \in {"Ok", "Err"}
       /\ (Len(frame.input) < 24 \/ InputCells < InputWidth * InputHeight)
             => frame.result = Err([kind |-> "NotEnoughBytes"])
       /\ (Len(frame.input) >= 24 /\ InputCells > InputWidth * InputHeight)
             => frame.result = Err([kind |-> "TooManyBytes"])

-----------------------------------------------------------------------------
(* MaskedGrid::write_maze and cell_to_byte: src/src/masked_grid.rs 166-183, *)
(* 345-365, 420-442.  The output is the sequence of bytes written.          *)

\* MaskedGrid::is_linked_at: both positions are in the mask and the pool
\* holds the link from the first to the second (Pool::is_linked).
is_linked_at(grid, lk, here, there) ==
    /\ here \in DOMAIN grid
    /\ there \in DOMAIN grid
    /\ grid[there] \in lk[grid[here]]

\* cell_to_byte: north | east | west | south for a cell of the grid, the
\* four bits being distinct; 0 for a position outside the mask.
cell_to_byte(w, h, grid, lk, row, col) ==
    IF <<row, col>> \in DOMAIN grid
    THEN LET bit(cond, v) == IF cond THEN v ELSE 0
         IN  bit(row > 0 /\ is_linked_at(grid, lk, <<row, col>>, <<row - 1, col>>), 8)
             + bit(col < w - 1 /\ is_linked_at(grid, lk, <<row, col>>, <<row, col + 1>>), 4)
             + bit(col > 0 /\ is_linked_at(grid, lk, <<row, col>>, <<row, col - 1>>), 2)
             + bit(row < h - 1 /\ is_linked_at(grid, lk, <<row, col>>, <<row + 1, col>>), 1)
    ELSE 0

\* write_maze on the grid whose pool is the current pool: furthest_pair()
\* unwrapped, the six u32 of the header, then one byte per position, row by
\* row.
write_maze(w, h, mask) ==
    LET grid == cell_grid(w, h, mask)
        f == furthest_pair
        payload(id) == CHOOSE p \in DOMAIN grid : grid[p] = id
    IN  IF f.panicked \/ f.value = None
        THEN [panicked |-> TRUE, out |-> <<>>]
        ELSE LET start == payload(f.value[1][1])
                 end == payload(f.value[1][2])
             IN  [panicked |-> FALSE,
                  out |-> to_be_bytes(w) \o to_be_bytes(h)
                          \o to_be_bytes(start[1]) \o to_be_bytes(start[2])
                          \o to_be_bytes(end[1]) \o to_be_bytes(end[2])
                          \o [k \in 1 .. (w * h) |->
                                cell_to_byte(w, h, grid, links,
                                             (k - 1) \div w, (k - 1) % w)]]

\* A masked grid is built (MaskedGrid::new), one of its two algorithms
\* runs, the grid is written and the bytes written are read back.
WriteMaze ==
    /\ pc = "done"
    /\ call.grid = "MaskedGrid"
    /\ LET r == write_maze(width, height, call.mask)
       IN  IF r.panicked
           THEN Panic(links)
           ELSE /\ frame' = [out |-> r.out]
                /\ pc' = "written"
                /\ UNCHANGED <<links, panicked>>
    /\ GenFrame

\* read_maze on the bytes written: the grid read is a new grid, kept in the
\* frame beside the grid written.
ReadBack ==
    /\ pc = "written"
    /\ \E r \in read_maze(frame.out) :
          /\ frame' = [out |-> frame.out, result |-> r.result,
                       read |-> [width |-> r.width, height |-> r.height,
                                 mask |-> r.mask, pool |-> r.pool]]
          /\ panicked' = r.panicked
          /\ pc' = IF r.panicked THEN "panicked" ELSE "read"
    /\ UNCHANGED links
    /\ GenFrame

RoundTripNext ==
    \/ MaskedGridNew
    \/ AldousBroderNext
    \/ HuntAndKillNext
    \/ WriteMaze
    \/ ReadBack

SpecRoundTrip == MazeInit /\ [][RoundTripNext]_vars

\* The links of the grid read, by coordinates.
ReadLinkedAt(here, there) ==
    is_linked_at(cell_grid(frame.read.width, frame.read.height, frame.read.mask),
                 frame.read.pool.links, here, there)

\* C21: a grid built on a connected mask and linked by a generation
\* algorithm, written by write_maze and read back by read_maze, comes back:
\* the read succeeds, and the grid read has the same width, height and cell
\* coordinates, two of them linked iff they were linked in the grid written.
C21_RoundTrip ==
    ("out" \in DOMAIN frame /\ pc # "written")
    => /\ ~panicked
       /\ frame.result = Ok
       /\ frame.read.width = width
       /\ frame.read.height = height
       /\ frame.read.mask = call.mask
       /\ \A here \in call.mask, there \in call.mask :
             ReadLinkedAt(here, there)
             <=> is_linked_at(cell_grid(width, height, call.mask), links, here, there)

-----------------------------------------------------------------------------
(* validate_news_grid called on a news grid:                                *)
(* src/src/masked_grid.rs 449-550.                                          *)

\* The news grids: each position of a grid of at most MaxCells positions is
\* absent or holds a non-zero byte.
NewsGridsOf(w, h) ==
    UNION {[mask -> CellBytes \ {0}] : mask \in SUBSET Positions(w, h)}

ValidateInit ==
    /\ nodes = Pool_new.nodes
    /\ adjacencies = Pool_new.adjacencies
    /\ links = Pool_new.links
    /\ width = 0 /\ height = 0
    /\ alg = "validate_news_grid"
    /\ pc = "start"
    /\ \E d \in ReadDims : \E news_grid \in NewsGridsOf(d[1], d[2]) :
          frame = [news_grid |-> news_grid]
    /\ panicked = FALSE
    /\ call = NoCall
    /\ all_bidirectional = TRUE

ValidateNewsGrid ==
    /\ alg = "validate_news_grid" /\ pc = "start"
    /\ \E v \in validate_news_grid(frame.news_grid) :
          frame' = [news_grid |-> frame.news_grid, result |-> v]
    /\ pc' = "done"
    /\ UNCHANGED <<nodes, adjacencies, links, panicked, call, all_bidirectional,
                   width, height, alg>>

SpecValidate == ValidateInit /\ [][ValidateNewsGrid]_vars

\* What a grid declares, and the violations it holds: a declared link that
\* leaves the grid by its top or its left, that leads to an absent cell, or
\* that the cell it leads to does not declare back.
Directions == {"North", "East", "West", "South"}

Declares(news_grid, pos, flag) ==
    /\ pos \in DOMAIN news_grid
    /\ CASE flag = "North" -> (news_grid[pos] \div 8) % 2 = 1
         [] flag = "East" -> (news_grid[pos] \div 4) % 2 = 1
         [] flag = "West" -> (news_grid[pos] \div 2) % 2 = 1
         [] flag = "South" -> news_grid[pos] % 2 = 1

Towards(pos, flag) ==
    CASE flag = "North" -> <<pos[1] - 1, pos[2]>>
      [] flag = "East" -> <<pos[1], pos[2] + 1>>
      [] flag = "West" -> <<pos[1], pos[2] - 1>>
      [] flag = "South" -> <<pos[1] + 1, pos[2]>>

Opposite(flag) ==
    CASE flag = "North" -> "South"
      [] flag = "East" -> "West"
      [] flag = "West" -> "East"
      [] flag = "South" -> "North"

OffGrid(news_grid) ==
    {x \in (DOMAIN news_grid) \X {"North", "West"} :
        /\ Declares(news_grid, x[1], x[2])
        /\ (x[2] = "North" /\ x[1][1] = 0) \/ (x[2] = "West" /\ x[1][2] = 0)}

Unrequited(news_grid) ==
    {x \in (DOMAIN news_grid) \X Directions :
        /\ Declares(news_grid, x[1], x[2])
        /\ Towards(x[1], x[2]) \in DOMAIN news_grid
        /\ ~Declares(news_grid, Towards(x[1], x[2]), Opposite(x[2]))}

Violations(news_grid) ==
    {x \in (DOMAIN news_grid) \X Directions :
        /\ Declares(news_grid, x[1], x[2])
        /\ ~Declares(news_grid, Towards(x[1], x[2]), Opposite(x[2]))}

\* C22: a grid in which a cell of row 0 declares north, or a cell of column
\* 0 declares west, is rejected, and when that declaration is the grid's
\* only violation the error is ConnectedOutOfBounds with that cell and
\* direction.
C22_OutOfBoundsRejected ==
    (alg = "validate_news_grid" /\ pc = "done")
    => /\ OffGrid(frame.news_grid) # {} => frame.result # NewsOk
       /\ \A x \in OffGrid(frame.news_grid) :
             Violations(frame.news_grid) = {x}
             => frame.result = [kind |-> "ConnectedOutOfBounds",
                                cell |-> x[1], direction |-> x[2]]

\* A grid of two cells side by side that declare each other, the left one
\* declaring west as well, has been rejected as ConnectedOutOfBounds.
C22_Witness ==
    /\ alg = "validate_news_grid" /\ pc = "done"
    /\ frame.news_grid = (<<0, 0>> :> 6) @@ (<<0, 1>> :> 2)
    /\ frame.result = [kind |-> "ConnectedOutOfBounds",
                       cell |-> <<0, 0>>, direction |-> "West"]

\* The result is UnrequitedConnection naming one of the grid's unreciprocated
\* links: the cell declaring it, the present neighbour and the direction.
NamesUnrequited ==
    /\ frame.result.kind = "UnrequitedConnection"
    /\ <<frame.result.linked, frame.result.direction>> \in Unrequited(frame.news_grid)
    /\ frame.result.unlinked = Towards(frame.result.linked, frame.result.direction)

\* C23 as stated: a grid in which a cell declares a link to a present
\* neighbour that does not declare the reciprocal link is rejected with
\* UnrequitedConnection naming the linked cell, the unlinked cell and the
\* direction, and the result is Ok only if every declared link is
\* reciprocated by a present neighbour.
C23_UnrequitedNamed ==
    (alg = "validate_news_grid" /\ pc = "done")
    => /\ Unrequited(frame.news_grid) # {} => NamesUnrequited
       /\ frame.result = NewsOk => Violations(frame.news_grid) = {}

\* C23 amended: such a grid is always rejected, and with UnrequitedConnection
\* naming the linked cell, the unlinked cell and the direction when the grid
\* holds no violation of another kind; the result is Ok only if every
\* declared link is reciprocated by a present neighbour.
C23_UnrequitedRejected ==
    (alg = "validate_news_grid" /\ pc = "done")
    => /\ Unrequited(frame.news_grid) # {} => frame.result # NewsOk
       /\ (/\ Unrequited(frame.news_grid) # {}
           /\ Violations(frame.news_grid) = Unrequited(frame.news_grid))
          => NamesUnrequited
       /\ frame.result = NewsOk => Violations(frame.news_grid) = {}

\* The grid in which (0,0) declares east and (0,1) declares nothing has
\* been rejected as an unrequited connection of (0,0) to (0,1) eastwards.
C23_Witness ==
    /\ alg = "validate_news_grid" /\ pc = "done"
    /\ frame.news_grid = (<<0, 0>> :> 4) @@ (<<0, 1>> :> 16)
    /\ frame.result = [kind |-> "UnrequitedConnection", linked |-> <<0, 0>>,
                       unlinked |-> <<0, 1>>, direction |-> "East"]

-----------------------------------------------------------------------------
(* Walks that stand on a node without neighbours:                           *)
(* src/src/grid/walker.rs 29-35, src/src/pool.rs 128-141.                   *)

\* The walker of wilson is to step and its final node has no neighbour.
WalkerStranded ==
    /\ alg = "wilson" /\ pc = "walk"
    /\ final_node(frame.path) \notin frame.visited_set
    /\ adjacencies[final_node(frame.path)] = {}

\* aldous_broder has unvisited nodes left and its cell has no neighbour.
AldousBroderStranded ==
    /\ alg = "aldous_broder" /\ pc = "loop"
    /\ frame.unvisited_count > 0
    /\ adjacencies[frame.cell] = {}

\* C24: a random_loop_erased_step from a final node with an empty adjacency
\* set, and an iteration of aldous_broder on a cell with an empty adjacency
\* set while unvisited nodes remain, panic: the step is taken (the
\* algorithm is neither finished nor stuck) and it ends in the panic.
C24_StrandedWalkAborts ==
    /\ []((WalkerStranded \/ AldousBroderStranded) => ENABLED <<GenNext>>_vars)
    /\ [][(WalkerStranded \/ AldousBroderStranded) => panicked']_vars

\* wilson has panicked with its walker on a node without neighbours.
C24_Witness ==
    /\ alg = "wilson" /\ pc = "panicked" /\ panicked
    /\ "path" \in DOMAIN frame
    /\ adjacencies[final_node(frame.path)] = {}
    /\ final_node(frame.path) \notin frame.visited_set

\* aldous_broder has panicked on a cell without neighbours.
C24_WitnessAldousBroder ==
    /\ alg = "aldous_broder" /\ pc = "panicked" /\ panicked
    /\ "cell" \in DOMAIN frame
    /\ frame.unvisited_count > 0
    /\ adjacencies[frame.cell] = {}

-----------------------------------------------------------------------------
(* Claims about new_node, checked under Spec: src/src/pool.rs 119-126.      *)

\* C25: a call that changes the number of nodes is a new_node call that
\* returns the number of nodes allocated before it, an id no node had; the
\* pool then has one node more, the node at that index is the new one,
\* with empty sets, and the adjacency and link sets of the nodes allocated
\* before are what they were.  The number of nodes never decreases, so no
\* later call returns that id again.
C25_NewNodeFreshId ==
    [][/\ nodes' >= nodes
       /\ nodes' # nodes
          => /\ call'.op = "new_node"
             /\ call'.id = nodes
             /\ call'.id \notin NodeIds
             /\ NodeIds' = NodeIds \cup {call'.id}
             /\ adjacencies'[call'.id] = {} /\ links'[call'.id] = {}
             /\ \A id \in NodeIds : /\ adjacencies'[id] = adjacencies[id]
                                    /\ links'[id] = links[id]]_vars

\* new_node has returned 1 on a pool whose node 0 was adjacent and linked
\* to itself, and still is.
C25_Witness ==
    /\ call = [op |-> "new_node", id |-> 1]
    /\ nodes = 2
    /\ adjacencies[0] = {0} /\ links[0] = {0}
    /\ adjacencies[1] = {} /\ links[1] = {}

-----------------------------------------------------------------------------
(* The queries of a Pool: map_nodes, walls_of, scan_frontier:              *)
(* src/src/pool.rs 171-184, 273-317, asked on any pool a caller of the     *)
(* Pool API has built.                                                      *)

\* The node at an index, without its payload (the pools of the callers
\* modelled carry none that a closure reads).
Node_at(i) == [id |-> i, links |-> links[i], adjacencies |-> adjacencies[i]]

\* The closures given to map_nodes: the node's id, the number of its links,
\* the number of its adjacencies.
PayloadFunctions == {"id", "links", "adjacencies"}

payload_of(f, n) ==
    CASE f = "id" -> n.id
      [] f = "links" -> Cardinality(n.links)
      [] f = "adjacencies" -> Cardinality(n.adjacencies)

\* A mutant of map_nodes that keeps the sets Node::new made.
map_nodes_fresh(f) ==
    [nodes |-> [i \in NodeIds |->
                  [id |-> Node_at(i).id, links |-> {}, adjacencies |-> {},
                   payload |-> payload_of(f, Node_at(i))]]]

\* Pool::map_nodes: for each node n, in order, Node::new(n.id, |_| f(n))
\* with n's links and adjacencies cloned over the empty sets.
map_nodes(f) ==
    [nodes |-> [i \in NodeIds |->
                  LET n == Node_at(i)
                  IN  [id |-> n.id, links |-> n.links, adjacencies |-> n.adjacencies,
                       payload |-> payload_of(f, n)]]]

MapNodes ==
    /\ ~panicked
    /\ \E f \in PayloadFunctions :
          call' = [op |-> "map_nodes", f |-> f, result |-> map_nodes(f)]
    /\ UNCHANGED <<nodes, adjacencies, links, panicked, all_bidirectional,
                   width, height, alg, pc, frame>>

WallsOf ==
    /\ ~panicked
    /\ \E id \in NodeIds :
          call' = [op |-> "walls_of", id |-> id, result |-> walls_of(id)]
    /\ UNCHANGED <<nodes, adjacencies, links, panicked, all_bidirectional,
                   width, height, alg, pc, frame>>

ScanFrontier ==
    /\ ~panicked
    /\ \E visited \in SUBSET NodeIds : \E res \in scan_frontier(visited) :
          call' = [op |-> "scan_frontier", visited |-> visited, result |-> res]
    /\ UNCHANGED <<nodes, adjacencies, links, panicked, all_bidirectional,
                   width, height, alg, pc, frame>>

\* The pools a caller of the Pool API can have built: up to MaxPoolNodes
\* nodes, any adjacency sets (make_adjacent one way or both), any link sets
\* within them (link_cells and unlink_cells one way or both).
QueriesInit ==
    /\ \E n \in 0 .. MaxPoolNodes :
       \E adj \in [0 .. (n - 1) -> SUBSET (0 .. (n - 1))] :
       \E lk \in [0 .. (n - 1) -> SUBSET (0 .. (n - 1))] :
          /\ \A i \in 0 .. (n - 1) : lk[i] \subseteq adj[i]
          /\ nodes = n
          /\ adjacencies = adj
          /\ links = lk
    /\ panicked = FALSE
    /\ call = NoCall
    /\ all_bidirectional = FALSE
    /\ GenIdle

QueriesNext == MapNodes \/ WallsOf \/ ScanFrontier

SpecQueries == QueriesInit /\ [][QueriesNext]_vars

\* C26: map_nodes(f) returns a pool with as many nodes as the source, the
\* node at each index having the id, adjacency set and link set of the
\* source's node at that index and the payload f gives for it; the call
\* leaves the source as it was.
C26_MapNodes ==
    /\ [](call.op = "map_nodes"
          => /\ DOMAIN call.result.nodes = NodeIds
             /\ \A i \in NodeIds :
                   /\ call.result.nodes[i].id = i
                   /\ call.result.nodes[i].adjacencies = adjacencies[i]
                   /\ call.result.nodes[i].links = links[i]
                   /\ call.f = "id" => call.result.nodes[i].payload = i
                   /\ call.f = "links"
                         => call.result.nodes[i].payload = Cardinality(links[i])
                   /\ call.f = "adjacencies"
                         => call.result.nodes[i].payload = Cardinality(adjacencies[i]))
    /\ [][call'.op = "map_nodes" => UNCHANGED <<nodes, adjacencies, links>>]_vars

\* map_nodes has copied a pool of two nodes, node 0 adjacent and linked to
\* node 1 one way, with the numbers of links as payloads.
C26_Witness ==
    /\ call.op = "map_nodes" /\ call.f = "links"
    /\ nodes = 2
    /\ adjacencies[0] = {1} /\ links[0] = {1}
    /\ adjacencies[1] = {} /\ links[1] = {}
    /\ call.result.nodes[0] = [id |-> 0, links |-> {1}, adjacencies |-> {1}, payload |-> 1]
    /\ call.result.nodes[1] = [id |-> 1, links |-> {}, adjacencies |-> {}, payload |-> 0]

\* C27: walls_of(id) is neighborhood_of(id) minus passages_of(id); when the
\* links of the node are among its adjacencies, walls_of(id) and
\* passages_of(id) are disjoint and their union is neighborhood_of(id).
C27_WallsAndPassages ==
    call.op = "walls_of"
    => /\ call.result = {n \in neighborhood_of(call.id) : n \notin passages_of(call.id)}
       /\ passages_of(call.id) \subseteq neighborhood_of(call.id)
          => /\ call.result \cap passages_of(call.id) = {}
             /\ call.result \cup passages_of(call.id) = neighborhood_of(call.id)

\* walls_of(0) has returned {1} on a pool where node 0 is adjacent to
\* itself and to node 1 and linked to itself only.
C27_Witness ==
    /\ call = [op |-> "walls_of", id |-> 0, result |-> {1}]
    /\ nodes = 2
    /\ adjacencies[0] = {0, 1}
    /\ links[0] = {0}

\* C30: scan_frontier(visited) returns Found{unvisited, visited: v} only
\* with unvisited outside the visited set, v inside it and v adjacent to
\* unvisited, and NoFrontier exactly when no node outside the visited set
\* is adjacent to a node inside it, whatever the pool, its links and the
\* visited set.
C30_ScanFrontier ==
    call.op = "scan_frontier"
    => /\ call.result.found
          => /\ call.result.unvisited \in NodeIds \ call.visited
             /\ call.result.visited \in call.visited
             /\ call.result.visited \in adjacencies[call.result.unvisited]
       /\ ~call.result.found
          <=> ~ \E n \in NodeIds \ call.visited : adjacencies[n] \cap call.visited # {}

-----------------------------------------------------------------------------
(* Two runs of an algorithm on equal pools:                                 *)
(* src/src/grid/mod.rs 218-269.  binary_tree and sidewinder take no random  *)
(* source: binary_tree draws with rand::random and sidewinder from the      *)
(* thread_rng() it fetches itself, so the sequence of draws the caller      *)
(* passes is the empty one in every run.                                    *)

RerunInit == GenInit("binary_tree") \/ GenInit("sidewinder")

\* The first run has returned: its links are kept aside and the algorithm
\* is run again on an equal pool, the same geometry without links.
RunAgain ==
    /\ alg \in {"binary_tree", "sidewinder"}
    /\ pc = "done"
    /\ call = NoCall
    /\ call' = [op |-> "first_run", links |-> links, draws |-> <<>>]
    /\ links' = NoLinks(nodes)
    /\ pc' = "start"
    /\ frame' = NoFrame
    /\ UNCHANGED <<nodes, adjacencies, panicked, all_bidirectional, width, height, alg>>

RerunNext == BinaryTreeNext \/ SidewinderNext \/ RunAgain

SpecRerun == RerunInit /\ [][RerunNext]_vars

\* C28: the links an algorithm leaves are a function of the geometry and of
\* the draws taken from the random source passed to it: a second run on an
\* equal pool, passed the same draws, has ended with the links of the first.
C28_Deterministic ==
    (pc = "done" /\ call.op = "first_run") => links = call.links

-----------------------------------------------------------------------------
(* RingProfile::take_step called on the cells of a profile:                 *)
(* src/src/polar_grid.rs 47-66, 105-168, 484-518.                           *)

MaxProfile == 6     \* starting_branch_count of the profiles stepped on
MaxRing == 3        \* outermost ring of the cells stepped from
MaxTaken == 2       \* steps taken one after the other

RingSteps == {"UpSplitLeft", "UpSplitRight", "UpSingle", "CW", "CCW", "Down"}

\* The cells of a profile: RingProfile::new wants more than one branch; a
\* cell's column is below the cell count of its ring.
RingCells(profile) ==
    UNION {{[ring |-> ring, column |-> column] :
               column \in 0 .. (ring_cell_count(profile, ring) - 1)} :
           ring \in 0 .. MaxRing}

TakeStepInit ==
    /\ nodes = Pool_new.nodes
    /\ adjacencies = Pool_new.adjacencies
    /\ links = Pool_new.links
    /\ width = 0 /\ height = 0
    /\ alg = "take_step"
    /\ pc = "step"
    /\ \E profile \in 2 .. MaxProfile : \E start \in RingCells(profile) :
          frame = [profile |-> profile, start |-> start, pos |-> Some(start),
                   steps |-> <<>>]
    /\ panicked = FALSE
    /\ call = NoCall
    /\ all_bidirectional = TRUE

\* take_step from the position the last step gave.
TakeStep ==
    /\ alg = "take_step" /\ pc = "step"
    /\ frame.pos # None
    /\ Len(frame.steps) < MaxTaken
    /\ \E step \in RingSteps :
          frame' = [frame EXCEPT !.pos = take_step(frame.profile, frame.pos[1], step),
                                 !.steps = Append(@, step)]
    /\ UNCHANGED <<nodes, adjacencies, links, panicked, call, all_bidirectional,
                   width, height, alg, pc>>

SpecTakeStep == TakeStepInit /\ [][TakeStep]_vars

\* The cell counts of the rings by doubling: ring 1 has the branches of
\* the profile, and a ring has twice the cells of the ring below when the
\* cells would otherwise be more than 2 wide on its inner circle
\* (2 * pi * ring > 2 * cells), as many otherwise.
RECURSIVE RingWidth(_, _)
RingWidth(profile, ring) ==
    IF ring = 0 THEN 1
    ELSE IF ring = 1 THEN profile
    ELSE LET below == RingWidth(profile, ring - 1)
         IN  IF below * 1000000 < 3141593 * ring THEN 2 * below ELSE below

\* C29: a step from the centre cell gives None; from a cell of ring 1 or
\* more, CW gives the column plus one and CCW the column minus one, modulo
\* the cell count of the ring, on the same ring (so CCW after CW gives the
\* cell back); Down gives the centre from ring 1, the column halved on the
\* ring below when that ring has fewer cells, the same column on the ring
\* below otherwise; on the profile of 6 branches, Down from column 5 of ring
\* 2 gives column 2 of ring 1 and Down from column 4 of ring 3 gives column
\* 4 of ring 2.
C29_TakeStep ==
    alg = "take_step"
    => LET start == frame.start
           w == RingWidth(frame.profile, start.ring)
       IN  /\ (Len(frame.steps) = 1 /\ start.ring = 0) => frame.pos = None
           /\ (start.ring >= 1 /\ frame.steps = <<"CW">>)
              => frame.pos = Some([ring |-> start.ring,
                                   column |-> (start.column + 1) % w])
           /\ (start.ring >= 1 /\ frame.steps = <<"CCW">>)
              => frame.pos = Some([ring |-> start.ring,
                                   column |-> (start.column + w - 1) % w])
           /\ (start.ring >= 1 /\ frame.steps = <<"CW", "CCW">>)
              => frame.pos = Some(start)
           /\ (start.ring = 1 /\ frame.steps = <<"Down">>)
              => frame.pos = Some([ring |-> 0, column |-> 0])
           /\ (start.ring > 1 /\ frame.steps = <<"Down">>)
              => frame.pos =
                    Some([ring |-> start.ring - 1,
                          column |-> IF RingWidth(frame.profile, start.ring - 1) < w
                                     THEN start.column \div 2
                                     ELSE start.column])
           /\ (frame.profile = 6 /\ start = [ring |-> 2, column |-> 5]
               /\ frame.steps = <<"Down">>)
              => frame.pos = Some([ring |-> 1, column |-> 2])
           /\ (frame.profile = 6 /\ start = [ring |-> 3, column |-> 4]
               /\ frame.steps = <<"Down">>)
              => frame.pos = Some([ring |-> 2, column |-> 4])

\* On the profile of 6 branches, Down from column 4 of ring 3 (12 cells, as
\* many as ring 2) has given column 4 of ring 2.
C29_Witness ==
    /\ alg = "take_step"
    /\ frame.profile = 6
    /\ frame.start = [ring |-> 3, column |-> 4]
    /\ frame.steps = <<"Down">>
    /\ frame.pos = Some([ring |-> 2, column |-> 4])
    /\ RingWidth(6, 3) = 12 /\ RingWidth(6, 2) = 12 /\ RingWidth(6, 1) = 6

-----------------------------------------------------------------------------
(* Termination of DijkstraPad::perform: src/src/dijkstra.rs 72-92.  The     *)
(* method is straight-line sequential code: a step that can be taken is     *)
(* taken.                                                                   *)

SpecDijkstraLive == SpecDijkstra /\ WF_vars(DijkstraNext)

\* The payloads while perform runs.
Assigned(f) == IF "payload" \in DOMAIN f
               THEN {n \in DOMAIN f.payload : f.payload[n] # None}
               ELSE {}
InFrontier(f) ==
    (IF "frontier" \in DOMAIN f THEN f.frontier ELSE {})
    \cup (IF "new_frontier" \in DOMAIN f THEN f.new_frontier ELSE {})

\* C31: perform terminates (the frontier becomes empty and the Distances
\* are returned); a payload that is Some(d) is never written again; a node
\* is put into a frontier only while it has no payload and gets one as it
\* is put, so that it enters a frontier at most once.
C31_DijkstraTerminates ==
    /\ <>(pc = "done")
    /\ [](InFrontier(frame) \subseteq Assigned(frame))
    /\ [][("payload" \in DOMAIN frame /\ "payload" \in DOMAIN frame')
          => /\ \A n \in Assigned(frame) : frame'.payload[n] = frame.payload[n]
             /\ \A n \in InFrontier(frame') \ InFrontier(frame) :
                   n \notin Assigned(frame)]_vars

\* perform has ended on three nodes linked in a cycle both ways, the two
\* other nodes at distance 1.
C31_Witness ==
    /\ alg = "dijkstra" /\ pc = "done"
    /\ nodes = 3
    /\ \A n \in NodeIds : links[n] = NodeIds \ {n}
    /\ frame.start_node = 0
    /\ frame.distances = (0 :> Finite(0)) @@ (1 :> Finite(1)) @@ (2 :> Finite(1))

-----------------------------------------------------------------------------
(* Termination of Pool::aldous_broder: src/src/pool.rs 128-141.  The steps  *)
(* are sequential (weak fairness of the loop); the random source is fair:   *)
(* a neighbour that can be drawn again and again from a cell is drawn.      *)

\* The iteration of the loop that stands on cell and draws random_neighbor.
AldousBroderDraw(cell, random_neighbor) ==
    /\ AldousBroderStep
    /\ frame.cell = cell
    /\ frame'.cell = random_neighbor

SpecAldousBroderFair ==
    /\ SpecAldousBroder
    /\ WF_vars(AldousBroderNext)
    /\ \A cell \in 0 .. (MaxNodes - 1), random_neighbor \in 0 .. (MaxNodes - 1) :
          SF_vars(AldousBroderDraw(cell, random_neighbor))

\* C32: on a pool of at least 2 nodes with connected symmetric adjacency,
\* aldous_broder under a fair random source terminates, and when it has
\* terminated every node has at least one link.
C32_AldousBroderTerminates ==
    /\ (nodes >= 2 /\ AdjConnected /\ AdjSymmetric) ~> (pc = "done")
    /\ []((pc = "done" /\ nodes >= 2 /\ AdjConnected /\ AdjSymmetric)
          => \A n \in NodeIds : links[n] # {})

-----------------------------------------------------------------------------
(* Termination of FlatSquareGrid::recursive_backtracker:                    *)
(* src/src/grid/mod.rs 291-312.  Only the sequential progress of the loop   *)
(* is assumed, nothing about the random source.                             *)

SpecRecursiveBacktrackerLive ==
    SpecRecursiveBacktracker /\ WF_vars(RecursiveBacktrackerNext)

\* What an iteration of the loop decreases: two for each node not yet
\* visited and one for each entry of the stack.
RecursiveBacktrackerMeasure(f) ==
    2 * (nodes - Cardinality(f.visited)) + Len(f.stack)

\* C33: on a non-empty pool recursive_backtracker terminates whatever the
\* random source draws: each iteration marks a new node visited (and pushes
\* it) or pops the stack.  At every loop head the stack has no duplicate,
\* holds visited nodes only, starts at the start node, and each entry is
\* linked to the next.
C33_RecursiveBacktrackerTerminates ==
    /\ (nodes >= 1) ~> (pc = "done")
    /\ [][(pc = "loop" /\ ~panicked')
          => /\ RecursiveBacktrackerMeasure(frame') < RecursiveBacktrackerMeasure(frame)
             /\ \/ /\ Cardinality(frame'.visited) = Cardinality(frame.visited) + 1
                   /\ Len(frame'.stack) = Len(frame.stack) + 1
                \/ /\ frame'.visited = frame.visited
                   /\ Len(frame'.stack) = Len(frame.stack) - 1]_vars
    /\ [](pc = "loop"
          => /\ \A i \in 1 .. Len(frame.stack), j \in 1 .. Len(frame.stack) :
                   frame.stack[i] = frame.stack[j] => i = j
             /\ SeqRange(frame.stack) \subseteq frame.visited
             /\ frame.stack[1] = 0
             /\ \A i \in 1 .. (Len(frame.stack) - 1) :
                   /\ frame.stack[i + 1] \in links[frame.stack[i]]
                   /\ frame.stack[i] \in links[frame.stack[i + 1]])

\* recursive_backtracker has ended on four nodes in a ring after its stack
\* held all four.
C33_Witness ==
    /\ alg = "recursive_backtracker" /\ pc = "done"
    /\ nodes = 4
    /\ frame.stack = <<>>
    /\ frame.visited = NodeIds
    /\ links = (0 :> {1}) @@ (1 :> {0, 2}) @@ (2 :> {1, 3}) @@ (3 :> {2})

-----------------------------------------------------------------------------
(* The loop invariant and termination of Pool::hunt_and_kill:               *)
(* src/src/pool.rs 143-184.                                                 *)

SpecHuntAndKillLive == SpecHuntAndKill /\ WF_vars(HuntAndKillNext)

\* The nodes with at least one link.
Linked == {n \in NodeIds : links[n] # {}}

-----------------------------------------------------------------------------
(* The counter of Pool::aldous_broder: src/src/pool.rs 128-141.             *)

\* C35: at every loop head of aldous_broder after the first step,
\* unvisited_count equals the number of nodes whose link set is empty, and
\* every link_cells call links the current cell to a neighbour that had no
\* links before the call.
C35_AldousBroderCount ==
    /\ []((alg = "aldous_broder" /\ pc \in {"loop", "done"} /\ Linked # {})
          => frame.unvisited_count = Cardinality(NodeIds \ Linked))
    /\ [][(alg = "aldous_broder" /\ pc = "loop" /\ links' # links)
          => /\ frame'.cell \in adjacencies[frame.cell]
             /\ links[frame'.cell] = {}
             /\ frame.cell \in links'[frame'.cell]]_vars

-----------------------------------------------------------------------------
(* The walker's path stays a path of the pool: src/src/grid/walker.rs      *)
(* 29-46, 81-87.                                                            *)

\* Every consecutive pair of the sequence tp is adjacent, in both directions.
AdjacentAlong(tp) ==
    \A i \in 1 .. (Len(tp) - 1) :
        /\ tp[i + 1] \in adjacencies[tp[i]]
        /\ tp[i] \in adjacencies[tp[i + 1]]

\* C36: on a pool with symmetric adjacency, after any number of
\* random_loop_erased_step calls every consecutive pair of the walker's
\* total path (start included) is adjacent in the pool, and carve_path does
\* not panic.
C36_PathAdjacent ==
    /\ []((alg = "wilson" /\ "path" \in DOMAIN frame /\ AdjSymmetric)
          => AdjacentAlong(<<frame.path.start_node>> \o frame.path.path))
    /\ []((alg = "wilson" /\ pc = "walk" /\ AdjSymmetric
             /\ frame.path.path # <<>>
             /\ frame.path.path[Len(frame.path.path)] \in frame.visited_set)
          => ENABLED <<WilsonCarve>>_vars)
    /\ [][(alg = "wilson" /\ pc = "walk" /\ AdjSymmetric
             /\ frame.path.path # <<>>
             /\ frame.path.path[Len(frame.path.path)] \in frame.visited_set)
          => (~panicked' /\ pc' = "pop")]_vars

\* On a ring of four nodes the walk from node 2 went 1, 0, 3 and has been
\* carved.
C36_Witness ==
    /\ alg = "wilson" /\ pc = "pop"
    /\ nodes = 4
    /\ adjacencies = (0 :> {1, 3}) @@ (1 :> {0, 2}) @@ (2 :> {1, 3}) @@ (3 :> {0, 2})
    /\ frame.starts_list = <<0, 1>>
    /\ links = (0 :> {1, 3}) @@ (1 :> {0, 2}) @@ (2 :> {1}) @@ (3 :> {0})

-----------------------------------------------------------------------------
(* A call of FlatSquareGrid::link_cells_at on a fresh grid:                 *)
(* src/src/grid/mod.rs 188-193, 210-216.                                    *)

LinkCellsAtInit ==
    /\ GridPoolInit
    /\ alg = "link_cells_at"
    /\ pc = "start"
    /\ frame = NoFrame
    /\ panicked = FALSE
    /\ call = NoCall
    /\ all_bidirectional = TRUE

\* link_cells_at(here, there) for any two pairs of usize, those outside the
\* grid included.
LinkCellsAt ==
    /\ alg = "link_cells_at" /\ pc = "start"
    /\ \E here \in (0 .. MaxDim) \X (0 .. MaxDim), there \in (0 .. MaxDim) \X (0 .. MaxDim) :
          LET r == link_cells_at(links, here, there)
          IN  /\ call' = [op |-> "link_cells_at", here |-> here, there |-> there]
              /\ links' = r.links
              /\ panicked' = r.panicked
              /\ pc' = IF r.panicked THEN "panicked" ELSE "done"
    /\ UNCHANGED <<nodes, adjacencies, all_bidirectional, width, height, alg, frame>>

SpecLinkCellsAt == LinkCellsAtInit /\ [][LinkCellsAt]_vars

\* C37: link_cells_at((r1, c1), (r2, c2)) succeeds and links the two cells
\* whenever both positions lie inside the grid (row < height,
\* column < width) and the cells are adjacent, on every grid shape.
C37_LinkCellsAtInside ==
    (/\ call.op = "link_cells_at"
     /\ call.here[1] < height /\ call.here[2] < width
     /\ call.there[1] < height /\ call.there[2] < width
     /\ node_grid(width, call.there[1], call.there[2])
            \in adjacencies[node_grid(width, call.here[1], call.here[2])])
    => /\ ~panicked
       /\ node_grid(width, call.there[1], call.there[2])
            \in links[node_grid(width, call.here[1], call.here[2])]
       /\ node_grid(width, call.here[1], call.here[2])
            \in links[node_grid(width, call.there[1], call.there[2])]

-----------------------------------------------------------------------------
(* What a panic of Pool::link_cells leaves behind: src/src/pool.rs 249-256. *)

\* C38: a link_cells(a, b, true) call that panics because a is not in b's
\* adjacency set, while b is in a's, leaves the link relation as it was
\* before the call: no link a -> b is left behind.
C38_AbortedLinkLeavesNothing ==
    [][(/\ ~panicked /\ panicked'
        /\ call'.op = "link_cells" /\ call'.bidirectional
        /\ call'.there \in adjacencies[call'.here]
        /\ call'.here \notin adjacencies[call'.there])
       => links' = links]_vars

-----------------------------------------------------------------------------
(* The result of Pool::furthest_pair on every pool, the empty one included: *)
(* src/src/pool.rs 114-117, 186-198.                                        *)

\* The key of the maxima: the length of the shortest path of links from s
\* to v, 0 for a v that s does not reach.
LinkDistanceOr0(s, v) ==
    IF v \in ReachIn(links, NodeIds, {s}) THEN PathLength(links, s, v) ELSE 0

\* C39: furthest_pair returns None exactly when the pool has no nodes; on a
\* non-empty pool it returns Some((X, Y)) where X has the maximum finite
\* link distance from node 0 and Y has the maximum finite link distance
\* from X, unreachable nodes counted as distance 0.
C39_FurthestPairResult ==
    (alg = "furthest_pair" /\ pc # "start")
    => /\ ~panicked
       /\ pc = "done"
       /\ (frame.result = None) <=> (nodes = 0)
       /\ nodes >= 1
            => /\ Len(frame.result) = 1
               /\ LET X == frame.result[1][1]
                      Y == frame.result[1][2]
                  IN  /\ X \in NodeIds /\ Y \in NodeIds
                      /\ \A m \in NodeIds : LinkDistanceOr0(0, m) <= LinkDistanceOr0(0, X)
                      /\ \A m \in NodeIds : LinkDistanceOr0(X, m) <= LinkDistanceOr0(X, Y)

-----------------------------------------------------------------------------
(* hunt_and_kill and recursive_backtracker on pools whose adjacency is not  *)
(* connected: src/src/pool.rs 143-184, src/src/grid/mod.rs 291-312.         *)

DisconnectedInit ==
    /\ GenInit("hunt_and_kill") \/ GenInit("recursive_backtracker")
    /\ ~AdjConnected

DisconnectedNext == HuntAndKillNext \/ RecursiveBacktrackerNext

SpecDisconnected ==
    DisconnectedInit /\ [][DisconnectedNext]_vars /\ WF_vars(DisconnectedNext)

\* The adjacency component of the start node.
StartComponent == ReachIn(adjacencies, NodeIds, {0})

C40_WitnessHuntAndKill ==
    /\ alg = "hunt_and_kill" /\ pc = "done"
    /\ nodes = 4
    /\ adjacencies = (0 :> {1}) @@ (1 :> {0}) @@ (2 :> {3}) @@ (3 :> {2})
    /\ links = (0 :> {1}) @@ (1 :> {0}) @@ (2 :> {}) @@ (3 :> {})

====
